---- MODULE Spec2Model ----
(***************************************************************************)
(* LCARS bridge dashboard server (src/server.js, first server listing).    *)
(*                                                                         *)
(* The model covers the task store (loadTasks / saveTasks and the CRUD     *)
(* operations on the tasks document, with the 2 s read cache), the         *)
(* debounced broadcast hub, the generic TTL cache layer, the connections   *)
(* of the real-time channel with their keepalive, and the snapshot with    *)
(* its crew analysis and portfolio figures, the archive of done tasks, the *)
(* messages document with its replies, the bodies of the requests, the     *)
(* gateway uptime with its background command, and the waits of the update *)
(* loop and of the connection handlers for the gateway, together with the  *)
(* REST handlers, real-time-channel handlers, timers and file watchers     *)
(* that drive them.  A JavaScript null is the empty sequence None, a       *)
(* non-null value v is the one-element sequence <<v>>, wherever a slot may *)
(* hold either.                                                            *)
(***************************************************************************)
EXTENDS Integers, Sequences, FiniteSets, TLC

VARIABLES
    now,              \* Date.now(), in ms since the server started
    file,             \* tasks.json: None (no file) or <<document>>
    tasksCache,       \* the read cache of loadTasks: [data, lastLoad]
    nextId,           \* generateId: the next fresh id
    watching,         \* the tasks file watcher was installed at startup
    fileChanged,      \* tasks.json was written since the watcher last ran
    lastTasksState,   \* the tasks watcher's previous snapshot
    clients,          \* the set of registered connections
    readyState,       \* readyState of every connection
    conn,             \* the connection handler of every connection: [phase, isAlive, inits]
    broadcastQueue,   \* the queued broadcast payload, or None
    broadcastTimeout, \* TRUE while the flush timer is pending
    cache,            \* the cache layer: key -> [data, lastUpdate, ttl]
    archive,          \* the archive file of the day: None (no file) or <<content>>
    messagesFile,     \* messages.json: None (no file) or <<document>>
    messagesCache,    \* the read cache of loadMessages: [data, lastLoad]
    gatewayStatusPromise, \* TRUE while a gateway status command is running
    loop,             \* updateLoop: [pc, data, gateway, timers, flights], pc "timer", "gathering" or "body"
    last,             \* observation: what the handler of this step did and answered
    extWrites,        \* observation: writes of tasks.json by another process so far
    window,           \* observation: the broadcast calls of the open debounce window
    lastFlush,        \* observation: what the flush of this step sent
    hist              \* observation: the getCached calls of this step, the keys fetched
                      \* and the keys invalidated

vars == <<now, file, tasksCache, nextId, watching, fileChanged, lastTasksState, clients,
          readyState, conn, broadcastQueue, broadcastTimeout, cache, archive,
          messagesFile, messagesCache, gatewayStatusPromise, loop, last,
          extWrites, window, lastFlush, hist>>

storeVars == <<file, tasksCache, nextId, watching, fileChanged, lastTasksState,
               extWrites>>
hubVars   == <<clients, readyState, conn, broadcastQueue, broadcastTimeout, window>>
messageVars == <<messagesFile, messagesCache>>
sideVars  == <<archive, messageVars, gatewayStatusPromise, loop>>

-----------------------------------------------------------------------------
(* Bounds of the model *)

MaxIds == 1            \* generateId is called for at most this many tasks
MaxActivity == 3       \* activity records appended by the handlers
MaxEntries == 1        \* comments, and logs, added per task by the handlers
MaxExtWrites == 1      \* writes by the command-line companion
MaxTicks == 1          \* steps of the clock
MaxWindow == 3         \* broadcast calls counted per debounce window
MaxClients == 2        \* connections of the real-time channel
Excess == 2            \* records above a limit in a tasks.json written elsewhere
MaxSessions == 2       \* sessions in an answer of the gateway
MaxTrades == 3         \* trades in the history of the portfolio file
MaxMessages == 2       \* messages in messages.json
MaxReplies == 2        \* replies to a message

(* Program constants *)

SYSTEM_STATS_TTL == 15000
DEFAULT_TTL == 30000
WEATHER_TTL == 1800000
TASKS_CACHE_TTL == 2000
MAX_ACTIVITY_ENTRIES == 500
MAX_LOGS_PER_TASK == 50
DEBOUNCE_MS == 100
MESSAGES_CACHE_TTL == 2000
ARCHIVE_DONE_OLDER_THAN_DAYS == 7
MsPerDay == 86400000

None == <<>>
Some(v) == <<v>>
IsNull(o) == o = <<>>
Val(o) == o[1]

NoAgent == "null"
Absent == "null"

\* The strings JavaScript takes for true in a condition: all but the empty one
Truthy(v) == v # ""

\* `assignee ? ... : ...`: null and the empty string count as no assignee
Given(assignee) == assignee # NoAgent /\ Truthy(assignee)

\* `value || null`
OrNull(v) == IF Truthy(v) THEN v ELSE NoAgent

\* The observation variables tell what the step just taken did; a step that
\* is not of their kind leaves them at these values (the keys whose fetch
\* function ran, hist.ran, are kept)
NoObs ==
    [op |-> "none", taskId |-> 0, updates |-> <<>>, ret |-> "null", code |-> 0,
     saved |-> "none", bcast |-> FALSE, found |-> FALSE, old |-> Absent,
     added |-> <<>>, fileSame |-> TRUE, viewSame |-> TRUE, lost |-> FALSE,
     kept |-> TRUE, dropped |-> <<0, 0>>, tasksAdded |-> <<>>,
     to |-> 0, issued |-> <<>>, sent |-> <<>>, terminated |-> {}, silent |-> {},
     arch |-> [archived |-> 0, eligible |-> 0, moved |-> TRUE, writable |-> TRUE,
               same |-> TRUE],
     msg |-> [found |-> FALSE, appended |-> 0, status |-> "null", others |-> TRUE,
              same |-> TRUE, stored |-> TRUE],
     gw |-> [known |-> TRUE, fresh |-> FALSE, started |-> FALSE, failed |-> FALSE,
             kept |-> TRUE],
     link |-> [found |-> FALSE, tasksNew |-> 0, built |-> FALSE, linked |-> FALSE,
               messagesSame |-> TRUE]]

NoFlush ==
    [n |-> 0, open |-> 0, latest |-> TRUE, patched |-> FALSE, tasksFrame |-> FALSE,
     overtaken |-> {}, logged |-> FALSE, logFrames |-> FALSE,
     completed |-> {}, completedFrames |-> TRUE, early |-> {}]

NoHist == [gets |-> <<>>, ran |-> {}, invalid |-> {}]

NoGets == [hist EXCEPT !.gets = <<>>]

Columns == {"inbox", "assigned", "in_progress", "peer_review", "review", "done"}

-----------------------------------------------------------------------------
(* The tasks document *)

getDefaultTasks == [tasks |-> <<>>, activity |-> <<>>]

Activity(action, agent, taskId, from, to) ==
    [action |-> action, agent |-> agent, taskId |-> taskId, from |-> from, to |-> to]

\* A slice that keeps the first n elements: slice(0, n)
SliceFirst(s, n) ==
    IF Len(s) > n THEN SubSeq(s, 1, n) ELSE s

\* Array.prototype.slice(-n): the last n elements, all of them when fewer
SliceLast(s, n) ==
    IF Len(s) > n THEN SubSeq(s, Len(s) - n + 1, Len(s)) ELSE s

\* A findIndex whose miss is not told from a hit: the first task stands in
FindIndexOrFirst(tasks, taskId) ==
    IF \E i \in 1..Len(tasks) : tasks[i].id = taskId
    THEN CHOOSE i \in 1..Len(tasks) :
            /\ tasks[i].id = taskId
            /\ \A j \in 1..(i - 1) : tasks[j].id # taskId
    ELSE IF Len(tasks) > 0 THEN 1 ELSE 0

\* tasks.findIndex(t => t.id === taskId), 1-based; 0 stands for -1
FindIndex(tasks, taskId) ==
    IF \E i \in 1..Len(tasks) : tasks[i].id = taskId
    THEN CHOOSE i \in 1..Len(tasks) :
            /\ tasks[i].id = taskId
            /\ \A j \in 1..(i - 1) : tasks[j].id # taskId
    ELSE 0

\* tasks.splice(i, 1)
RemoveAt(s, i) == SubSeq(s, 1, i - 1) \o SubSeq(s, i + 1, Len(s))

\* { ...oldTask, ...updates } (the timestamps createdAt, updatedAt and the
\* timestamp of every comment, log and activity record are left out of the
\* model's documents)
MergeTask(oldTask, updates) ==
    [k \in (DOMAIN oldTask) \cup (DOMAIN updates) |->
        IF k \in DOMAIN updates THEN updates[k] ELSE oldTask[k]]

\* loadTasks: the cached document while it is fresh, else a fresh parse of the
\* file (which refills the cache), else the default document (not cached)
LoadTasks(c, f, t) ==
    IF ~IsNull(c.data) /\ (t - c.lastLoad) < TASKS_CACHE_TTL
    THEN [doc |-> Val(c.data), cache |-> c, fromCache |-> TRUE]
    ELSE IF ~IsNull(f)
    THEN [doc |-> Val(f), cache |-> [data |-> f, lastLoad |-> t], fromCache |-> TRUE]
    ELSE [doc |-> getDefaultTasks, cache |-> c, fromCache |-> FALSE]

pruneTaskData(doc) ==
    [doc EXCEPT
        !.activity = SliceLast(doc.activity, MAX_ACTIVITY_ENTRIES),
        !.tasks = [i \in 1..Len(doc.tasks) |->
                      [doc.tasks[i] EXCEPT !.logs = SliceLast(@, MAX_LOGS_PER_TASK)]]]

\* What tasksBackup.safeWriteTasks may do: write the file and answer success
\* ("ok"), or leave the file alone ("refused": it answers without success,
\* blocked or failed, or it throws; saveTasks returns false in each case)
SafeWriteOutcomes == {"ok", "refused"}

\* saveTasks(tasksData) on a document object whose content the caller has
\* changed into doc.  The callers change the object loadTasks handed out in
\* place; aliased says that this object is the one held in c.data, so what
\* was done to it stays in the cache unless the save succeeds and drops the
\* cached reference.
saveTasks(doc, c, aliased, f, outcome) ==
    LET pruned == pruneTaskData(doc) IN
    IF outcome = "ok"
    THEN [ok |-> TRUE, file |-> Some(pruned), doc |-> pruned,
          cache |-> [c EXCEPT !.data = None], aliased |-> FALSE]
    ELSE [ok |-> FALSE, file |-> f, doc |-> pruned,
          cache |-> IF aliased THEN [c EXCEPT !.data = Some(pruned)] ELSE c,
          aliased |-> aliased]

\* The result of a store operation that returned before changing anything
NotFound(ld, f) ==
    [ret |-> None, file |-> f, cache |-> ld.cache, saved |-> "none",
     pre |-> ld.doc, raw |-> ld.doc]

\* The result of a store operation that changed ld.doc (pre) into doc (raw),
\* saved it and returned entity whatever saveTasks answered
Mutated(doc, entity, ld, f, outcome) ==
    LET sv == saveTasks(doc, ld.cache, ld.fromCache, f, outcome) IN
    [ret |-> Some(entity), file |-> sv.file, cache |-> sv.cache,
     saved |-> IF sv.ok THEN "ok" ELSE "fail",
     pre |-> ld.doc, raw |-> doc]

\* An updateTask that logs a move for every update that supplies a status,
\* also one equal to the status the task has
updateTaskNoCompare(c, f, t, taskId, updates, outcome) ==
    LET ld == LoadTasks(c, f, t)
        i == FindIndex(ld.doc.tasks, taskId)
    IN  IF i = 0 THEN NotFound(ld, f)
        ELSE
        LET oldTask == ld.doc.tasks[i]
            updatedTask == MergeTask(oldTask, updates)
            moved == /\ "status" \in DOMAIN updates
                     /\ Truthy(updates.status)
            doc == [ld.doc EXCEPT
                      !.tasks[i] = updatedTask,
                      !.activity = IF moved
                                   THEN Append(@, Activity("moved", "system", taskId,
                                                           oldTask.status, updates.status))
                                   ELSE @]
        IN  Mutated(doc, updatedTask, ld, f, outcome)

updateTask(c, f, t, taskId, updates, outcome) ==
    LET ld == LoadTasks(c, f, t)
        i == FindIndex(ld.doc.tasks, taskId)
    IN  IF i = 0 THEN NotFound(ld, f)
        ELSE
        LET oldTask == ld.doc.tasks[i]
            updatedTask == MergeTask(oldTask, updates)
            moved == /\ "status" \in DOMAIN updates
                     /\ Truthy(updates.status)
                     /\ updates.status # oldTask.status
            doc == [ld.doc EXCEPT
                      !.tasks[i] = updatedTask,
                      !.activity = IF moved
                                   THEN Append(@, Activity("moved", "system", taskId,
                                                           oldTask.status, updates.status))
                                   ELSE @]
        IN  Mutated(doc, updatedTask, ld, f, outcome)

addTaskComment(c, f, t, taskId, author, outcome) ==
    LET ld == LoadTasks(c, f, t)
        i == FindIndex(ld.doc.tasks, taskId)
    IN  IF i = 0 THEN NotFound(ld, f)
        ELSE
        LET comment == [author |-> author]
            doc == [ld.doc EXCEPT
                      !.tasks[i].comments = Append(@, comment),
                      !.activity = Append(@, Activity("added", author, taskId, Absent, Absent))]
        IN  Mutated(doc, comment, ld, f, outcome)

\* An addTaskLog that puts its activity record at the front of the log
addTaskLogFront(c, f, t, taskId, logType, agent, outcome) ==
    LET ld == LoadTasks(c, f, t)
        i == FindIndex(ld.doc.tasks, taskId)
    IN  IF i = 0 THEN NotFound(ld, f)
        ELSE
        LET logEntry == [type |-> logType, agent |-> agent]
            doc == [ld.doc EXCEPT
                      !.tasks[i].logs = Append(@, logEntry),
                      !.activity = <<Activity("logged", agent, taskId, Absent, Absent)>> \o @]
        IN  Mutated(doc, logEntry, ld, f, outcome)

addTaskLog(c, f, t, taskId, logType, agent, outcome) ==
    LET ld == LoadTasks(c, f, t)
        i == FindIndex(ld.doc.tasks, taskId)
    IN  IF i = 0 THEN NotFound(ld, f)
        ELSE
        LET logEntry == [type |-> logType, agent |-> agent]
            doc == [ld.doc EXCEPT
                      !.tasks[i].logs = Append(@, logEntry),
                      !.activity = Append(@, Activity("logged", agent, taskId, Absent, Absent))]
        IN  Mutated(doc, logEntry, ld, f, outcome)

\* A createTask that puts every new task in the inbox
createTaskUnassigned(c, f, t, id, assignee, outcome) ==
    LET ld == LoadTasks(c, f, t)
        task == [id |-> id, status |-> "inbox",
                 assignee |-> assignee, priority |-> "medium",
                 comments |-> <<>>, logs |-> <<>>]
        created == Append(ld.doc.activity, Activity("created", "system", id, Absent, Absent))
        doc == [ld.doc EXCEPT
                  !.tasks = Append(@, task),
                  !.activity = IF Given(assignee)
                               THEN Append(created, [action |-> "assigned", agent |-> "system",
                                                     taskId |-> id, from |-> Absent,
                                                     to |-> Absent, target |-> assignee])
                               ELSE created]
    IN  Mutated(doc, task, ld, f, outcome)

createTask(c, f, t, id, assignee, outcome) ==
    LET ld == LoadTasks(c, f, t)
        task == [id |-> id,
                 status |-> IF Given(assignee) THEN "assigned" ELSE "inbox",
                 assignee |-> assignee, priority |-> "medium",
                 comments |-> <<>>, logs |-> <<>>]
        created == Append(ld.doc.activity, Activity("created", "system", id, Absent, Absent))
        doc == [ld.doc EXCEPT
                  !.tasks = Append(@, task),
                  !.activity = IF Given(assignee)
                               THEN Append(created, [action |-> "assigned", agent |-> "system",
                                                     taskId |-> id, from |-> Absent,
                                                     to |-> Absent, target |-> assignee])
                               ELSE created]
    IN  Mutated(doc, task, ld, f, outcome)

\* new Date() moved back by setDate(getDate() - ARCHIVE_DONE_OLDER_THAN_DAYS), in
\* ms (no change of the local clock falls into these days)
cutoffDate(t) == t - ARCHIVE_DONE_OLDER_THAN_DAYS * MsPerDay

\* new Date(text): the texts of the model's documents name a time before the
\* server started (time 0) or are no date, which gives an invalid Date
Timestamps == {"8 days before", "7 days before"}

DateValid(text) == text \in Timestamps

DateMs(text) ==
    CASE text = "8 days before" -> -8 * MsPerDay
      [] text = "7 days before" -> -7 * MsPerDay

\* task.status === 'done' && task.updatedAt && new Date(task.updatedAt) < cutoffDate;
\* an invalid Date compares false
ToArchive(task, t) ==
    /\ task.status = "done"
    /\ "updatedAt" \in DOMAIN task
    /\ Truthy(task.updatedAt)
    /\ DateValid(task.updatedAt)
    /\ DateMs(task.updatedAt) < cutoffDate(t)

\* The content of an archive file: a JSON array of tasks, which the spread
\* [...existing] can iterate, or an object that is no array, or text that
\* JSON.parse rejects
ArchiveOf(items) == [json |-> "array", items |-> items]
ArchiveObject == [json |-> "object"]
ArchiveInvalid == [json |-> "invalid"]

IsArray(content) == content.json = "array"

\* archiveOldTasks(tasksData): arch is the archive file of the day, written
\* tells whether writeFileSync succeeds ("ok") or throws.  Returns the
\* number archived, tasksData as the call leaves it and the archive file.
archiveOldTasks(tasksData, t, arch, written) ==
    LET toArchive == SelectSeq(tasksData.tasks, LAMBDA task : ToArchive(task, t))
        toKeep == SelectSeq(tasksData.tasks, LAMBDA task : ~ToArchive(task, t))
        thrown == \/ ~IsNull(arch) /\ ~IsArray(Val(arch))
                  \/ written # "ok"
        existing == IF IsNull(arch) THEN <<>> ELSE Val(arch).items
    IN  IF Len(toArchive) > 0 /\ thrown
        THEN [count |-> 0, doc |-> tasksData, archive |-> arch]
        ELSE [count |-> Len(toArchive),
              doc |-> [tasksData EXCEPT !.tasks = toKeep],
              archive |-> IF Len(toArchive) > 0
                          THEN Some(ArchiveOf(existing \o toArchive))
                          ELSE arch]

deleteTask(c, f, t, taskId, outcome) ==
    LET ld == LoadTasks(c, f, t)
        i == FindIndex(ld.doc.tasks, taskId)
    IN  IF i = 0 THEN NotFound(ld, f)
        ELSE
        LET deletedTask == ld.doc.tasks[i]
            doc == [ld.doc EXCEPT
                      !.tasks = RemoveAt(@, i),
                      !.activity = Append(@, Activity("deleted", "system", taskId, Absent, Absent))]
        IN  Mutated(doc, deletedTask, ld, f, outcome)


-----------------------------------------------------------------------------
(* The broadcast hub *)

\* JSON.stringify(broadcastQueue): the text of one frame
JSONstringify(payload) == [json |-> payload]

Hub == [queue |-> broadcastQueue, timeout |-> broadcastTimeout, window |-> window]

NoWindow == [n |-> 0, last |-> None, patch |-> None, direct |-> {}, completed |-> {}]

\* The tasks that the task_completed payloads broadcast in a window name
Completed(w, data) ==
    IF data.type = "task_completed" THEN w.completed \cup {data.data.taskId}
    ELSE w.completed

\* A broadcast that leaves a payload already queued in place
broadcastKeepFirst(h, data) ==
    LET w == IF h.timeout THEN h.window ELSE NoWindow IN
    [queue |-> IF h.timeout /\ ~IsNull(h.queue) THEN h.queue ELSE Some(data),
     timeout |-> TRUE,
     window |-> [w EXCEPT !.n = IF clients = {} THEN @ ELSE @ + 1,
                          !.last = Some(data),
                          !.completed = Completed(w, data)]]

\* A broadcast that queues the payload and starts no timer
broadcastNoTimer(h, data) ==
    [queue |-> Some(data), timeout |-> h.timeout,
     window |-> [h.window EXCEPT !.n = IF clients = {} THEN @ ELSE @ + 1,
                                 !.last = Some(data)]]

\* broadcast(data): the payload replaces whatever is queued; the 100 ms timer is
\* started only when none is pending.  The window field observes the window
\* that the pending timer closes: the payload of its last call, the tasks its
\* task_completed payloads name and, while a client is registered, the number
\* of its calls.
broadcast(h, data) ==
    LET w == IF h.timeout THEN h.window ELSE NoWindow IN
    [queue |-> Some(data), timeout |-> TRUE,
     window |-> [w EXCEPT !.n = IF clients = {} THEN @ ELSE @ + 1,
                          !.last = Some(data),
                          !.direct = {},
                          !.completed = Completed(w, data)]]

\* broadcastTasks(): loadTasks() and broadcast the document it returns
broadcastTasks(h, c, f, t) ==
    LET ld == LoadTasks(c, f, t) IN
    [hub |-> broadcast(h, [type |-> "tasks_update", data |-> ld.doc]),
     cache |-> ld.cache]

SetHub(h) ==
    /\ broadcastQueue' = h.queue
    /\ broadcastTimeout' = h.timeout
    /\ window' = h.window

\* Room for n more broadcast calls in the open window (a bound of the model)
WindowRoom(n) == ~broadcastTimeout \/ window.n + n <= MaxWindow

\* The frame carries a tasks_update whose document shows task p.taskId in
\* status p.status
ShowsStatus(frame, p) ==
    /\ frame.json.type = "tasks_update"
    /\ \E i \in 1..Len(frame.json.data.tasks) :
           /\ frame.json.data.tasks[i].id = p.taskId
           /\ frame.json.data.tasks[i].status = p.status

\* The frame carries the task_log_update of payload p
ShowsLog(frame, p) ==
    /\ frame.json.type = "task_log_update"
    /\ frame.json.taskId = p.taskId
    /\ frame.json.log = p.log

\* The frame carries a tasks_update whose document holds the log entry of
\* payload p in the logs of its task
ShowsLoggedTask(frame, p) ==
    /\ frame.json.type = "tasks_update"
    /\ \E i \in 1..Len(frame.json.data.tasks) :
           /\ frame.json.data.tasks[i].id = p.taskId
           /\ \E k \in 1..Len(frame.json.data.tasks[i].logs) :
                  frame.json.data.tasks[i].logs[k] = p.log

\* The frame carries a task_completed for task taskId
ShowsCompleted(frame, taskId) ==
    /\ frame.json.type = "task_completed"
    /\ frame.json.data.taskId = taskId

\* The callback of the timer that broadcast() starts.  sent[c] is what it
\* sends to connection c.  lastFlush observes a flush made with a client
\* registered: the calls counted in the window, the number of open clients,
\* whether every open client got exactly one frame, the text of the window's
\* last payload, and every other client none (latest), the clients that got
\* the frame after a direct frame sent to them since broadcast() was called
\* with its payload (overtaken), whether a PATCH that
\* changed a status was made in the window (patched) and whether every open
\* client got exactly one frame showing that status (tasksFrame), whether
\* the last call of the window was the task_log_update of an add_task_log
\* frame (logged) and whether every open client got a frame with that
\* payload and a tasks_update frame with the logged entry (logFrames), the
\* tasks for which task_completed was broadcast in the window (completed)
\* and whether every open client got exactly one task_completed frame for
\* each of them (completedFrames), and the clients that got the frame
\* while their connection handler had not sent them the init frame (early).
FlushTimer ==
    /\ broadcastTimeout
    /\ LET open == {c \in clients : readyState[c] = "OPEN"}
           sent == [c \in clients |->
                      IF ~IsNull(broadcastQueue) /\ c \in open
                      THEN <<JSONstringify(Val(broadcastQueue))>>
                      ELSE <<>>]
       IN  lastFlush' =
             IF clients = {} THEN NoFlush
             ELSE [n |-> window.n, open |-> Cardinality(open),
                   latest |-> /\ ~IsNull(window.last)
                              /\ \A c \in clients :
                                    sent[c] = IF c \in open
                                              THEN <<JSONstringify(Val(window.last))>>
                                              ELSE <<>>,
                   overtaken |-> {c \in open : Len(sent[c]) > 0 /\ c \in window.direct},
                   logged |-> /\ ~IsNull(window.last)
                              /\ Val(window.last).type = "task_log_update",
                   logFrames |-> /\ ~IsNull(window.last)
                                 /\ Val(window.last).type = "task_log_update"
                                 /\ \A c \in open :
                                       /\ \E k \in 1..Len(sent[c]) :
                                              ShowsLog(sent[c][k], Val(window.last))
                                       /\ \E k \in 1..Len(sent[c]) :
                                              ShowsLoggedTask(sent[c][k], Val(window.last)),
                   early |-> {c \in open : Len(sent[c]) > 0 /\ conn[c].inits = 0},
                   completed |-> window.completed,
                   completedFrames |->
                     \A taskId \in window.completed : \A c \in open :
                         Cardinality({k \in 1..Len(sent[c]) :
                                        ShowsCompleted(sent[c][k], taskId)}) = 1,
                   patched |-> ~IsNull(window.patch),
                   tasksFrame |-> /\ ~IsNull(window.patch)
                                  /\ \A c \in open :
                                        /\ Len(sent[c]) = 1
                                        /\ ShowsStatus(sent[c][1], Val(window.patch))]
    /\ broadcastQueue' = None
    /\ broadcastTimeout' = FALSE
    /\ window' = NoWindow
    /\ last' = NoObs
    /\ hist' = NoGets
    /\ UNCHANGED <<now, storeVars, sideVars, clients, readyState, conn, cache>>

-----------------------------------------------------------------------------
(* The cache layer *)

\* const cache = { systemStats: ..., gitStatus: ..., sessions: ..., ... }
InitCache ==
    [k \in {"systemStats", "gitStatus", "sessions", "quarkData", "bridgeData",
            "gatewayStatus"} |->
       [data |-> None, lastUpdate |-> 0,
        ttl |-> CASE k = "systemStats" -> SYSTEM_STATS_TTL
                  [] k = "gitStatus" -> 30000
                  [] k = "sessions" -> 10000
                  [] k = "quarkData" -> 5000
                  [] k = "bridgeData" -> 10000
                  [] k = "gatewayStatus" -> 60000]]

\* getCached(key, fetchFn); fetched is what fetchFn() returns when it is
\* called, computed tells whether it was
getCached(c, key, t, fetched) ==
    LET c1 == IF key \in DOMAIN c THEN c
              ELSE [k \in (DOMAIN c) \cup {key} |->
                      IF k = key
                      THEN [data |-> None, lastUpdate |-> 0, ttl |-> DEFAULT_TTL]
                      ELSE c[k]]
        entry == c1[key]
    IN  IF ~IsNull(entry.data) /\ (t - entry.lastUpdate) < entry.ttl
        THEN [ret |-> entry.data, cache |-> c1, computed |-> FALSE]
        ELSE [ret |-> fetched, computed |-> TRUE,
              cache |-> [c1 EXCEPT ![key].data = fetched, ![key].lastUpdate = t]]

\* What a source yields at time t: its state then, or the default that its
\* fetch function returns when the command fails
Fresh(t) == [ok |-> TRUE, at |-> t]
Default == [ok |-> FALSE, at |-> 0]
Fetched(env, t) == IF env = "ok" THEN Some(Fresh(t)) ELSE Some(Default)

\* The fetch function of GET /api/weather: null when curl or the parse fails
FetchedWeather(env, t) == IF env = "ok" THEN Some(Fresh(t)) ELSE None

getGitStatus(c, name, t, env) ==
    getCached(c, IF name = "workspace" THEN "gitStatus.workspace" ELSE "gitStatus.skills",
              t, Fetched(env, t))

getWorktrees(c, t, env) == getCached(c, "gitStatus.worktrees", t, Fetched(env, t))

getSystemStats(c, t, env) == getCached(c, "systemStats", t, Fetched(env, t))

\* What one getCached call did, for a key of which ran tells whether its
\* fetch function ran with no invalidation since: whether the entry was
\* within its lifetime (within), whether the fetch function was called
\* (computed) and failed (failed), whether the value returned is the one the
\* entry held (same), whether the entry held a successfully fetched value
\* (hadGood), and the kind of value returned.
GetObs(c, ran, key, t, r, env) ==
    LET had == key \in DOMAIN c IN
    [key |-> key, computed |-> r.computed,
     within |-> had /\ key \in ran /\ (t - c[key].lastUpdate) < c[key].ttl,
     same |-> had /\ r.ret = c[key].data,
     failed |-> r.computed /\ env # "ok",
     hadGood |-> had /\ ~IsNull(c[key].data) /\ Val(c[key].data).ok,
     ret |-> IF IsNull(r.ret) THEN "null"
             ELSE IF ~Val(r.ret).ok THEN "default"
             ELSE IF r.computed THEN "fresh" ELSE "previous"]

Ran(ran, r, key) == IF r.computed THEN ran \cup {key} ELSE ran

\* An invalidation that leaves every entry as it is
invalidateNothing(c, keys) == c

\* invalidateCache(keys): the entries that exist lose their value and keep
\* their timestamp and lifetime
invalidateCache(c, keys) ==
    [k \in DOMAIN c |-> IF k \in keys THEN [c[k] EXCEPT !.data = None] ELSE c[k]]

\* The getCached calls of one step, each with whether its key was passed to
\* invalidateCache with no getCached call for it since (invalidated), and
\* whether the entry was then younger than its lifetime (young); c is the
\* cache before the step
Marked(gets, invalid, c, t) ==
    [i \in DOMAIN gets |->
       [key |-> gets[i].key, computed |-> gets[i].computed, within |-> gets[i].within,
        same |-> gets[i].same, failed |-> gets[i].failed, hadGood |-> gets[i].hadGood,
        ret |-> gets[i].ret,
        invalidated |-> gets[i].key \in invalid,
        young |-> /\ gets[i].key \in invalid
                  /\ gets[i].key \in DOMAIN c
                  /\ (t - c[gets[i].key].lastUpdate) < c[gets[i].key].ttl]]

Keys(gets) == {gets[i].key : i \in DOMAIN gets}

\* What the gateway status command yields: an error of exec (a failed or
\* missing command, the 2 s timeout), output that JSON.parse rejects, the JSON
\* text null, or an object with an uptime (0: none, or zero) and a startedAt
GatewayOutputs ==
    {[kind |-> k, uptime |-> 0, startedAt |-> "none"] :
        k \in {"error", "garbage", "json null"}}
    \cup [kind : {"object"}, uptime : {0, 120},
          startedAt : {"none", "5 s before the start", "not a date"}]

GatewayFails(out) == out.kind # "object"

\* new Date(startedAt).getTime(), on the clock of the model
StartedAtMs(startedAt) == IF startedAt = "5 s before the start" THEN 0 - 5000 ELSE 0

Seconds(n) == [seconds |-> n]
NaN == [nan |-> TRUE]

\* A callback that clears the entry when the command fails
gatewayStatusCleared(c, out, t) ==
    [c EXCEPT !["gatewayStatus"].data = None, !["gatewayStatus"].lastUpdate = t]

\* The callback of exec in updateGatewayStatusAsync, on the cache
gatewayStatusCallback(c, out, t) ==
    IF GatewayFails(out)
    THEN c
    ELSE LET uptime == IF out.uptime # 0 THEN Some(Seconds(out.uptime))
                       ELSE IF out.startedAt = "none" THEN None
                       ELSE IF out.startedAt = "not a date" THEN Some(NaN)
                       ELSE Some(Seconds((t - StartedAtMs(out.startedAt)) \div 1000))
         IN  [c EXCEPT !["gatewayStatus"].data = uptime,
                       !["gatewayStatus"].lastUpdate = t]

\* A getGatewayUptime() that runs the command whenever the entry is stale
getGatewayUptimeUnguarded(c, pending, t) ==
    LET entry == c["gatewayStatus"]
        fresh == ~IsNull(entry.data) /\ (t - entry.lastUpdate) < entry.ttl
    IN  [ret |-> entry.data, fresh |-> fresh, started |-> ~fresh, pending |-> pending \/ ~fresh]

\* getGatewayUptime(): what it returns, whether the entry was fresh, whether
\* it started the command, and whether a command is running after it
getGatewayUptime(c, pending, t) ==
    LET entry == c["gatewayStatus"]
        fresh == ~IsNull(entry.data) /\ (t - entry.lastUpdate) < entry.ttl
    IN  [ret |-> entry.data, fresh |-> fresh, started |-> ~fresh /\ ~pending,
         pending |-> pending \/ ~fresh]

-----------------------------------------------------------------------------
(* The sources of the snapshot that do not go through the cache layer *)

\* JSON values: an array with its items, or an object that is no array
JArray(items) == [json |-> "array", items |-> items]
JObject == [json |-> "object", error |-> "unavailable"]

\* getSessions(): the body of the gateway's answer when the request succeeds
\* with an ok status, whatever JSON it is; [] when the request fails, times
\* out, or is answered with another status
getSessions(gateway) ==
    IF gateway.kind = "ok" THEN gateway.body ELSE JArray(<<>>)

\* The labels of the model's sessions, and what toLowerCase() makes of them
Labels == {"Spock research", "Dashboard build", "email triage", "Crypto TRADING",
           "review data", "research data", "customer ops", "security review",
           "EMH", "Borg", "resource", "Torres", "paris risk", "QC", "misc"}

toLowerCase(label) ==
    CASE label = "Spock research" -> "spock research"
      [] label = "Dashboard build" -> "dashboard build"
      [] label = "Crypto TRADING" -> "crypto trading"
      [] label = "EMH" -> "emh"
      [] label = "Borg" -> "borg"
      [] label = "Torres" -> "torres"
      [] label = "QC" -> "qc"
      [] label = "Geordi" -> "geordi"
      [] label = "Seven" -> "seven"
      [] OTHER -> label

\* The substrings of a text among those the routing rules look for
Substrings(text) ==
    CASE text = "spock research" -> {"spock", "research"}
      [] text = "dashboard build" -> {"dashboard", "build"}
      [] text = "email triage" -> {"email", "triage"}
      [] text = "crypto trading" -> {"crypto", "trad"}
      [] text = "review data" -> {"review", "data"}
      [] text = "research data" -> {"research", "data"}
      [] text = "customer ops" -> {"tom", "ops"}
      [] text = "security review" -> {"security", "review"}
      [] text = "emh" -> {"emh"}
      [] text = "borg" -> {"borg"}
      [] text = "resource" -> {"resource"}
      [] text = "torres" -> {"torres"}
      [] text = "paris risk" -> {"paris", "risk"}
      [] text = "qc" -> {"qc"}
      [] OTHER -> {}

\* label.includes(sub)
includes(text, sub) == sub \in Substrings(text)

Crew == {"seven", "spock", "geordi", "uhura", "quark", "data", "belanna", "harry",
         "icheb", "tom", "neelix", "tuvok", "doctor"}

\* (session.label || '').toLowerCase()
LabelOf(session) ==
    IF "label" \in DOMAIN session /\ Truthy(session.label)
    THEN toLowerCase(session.label) ELSE ""

\* A routing that looks for the QC officer before the science officer
RouteDataFirst(label) ==
    IF includes(label, "data") \/ includes(label, "qc") \/ includes(label, "review")
    THEN "data"
    ELSE IF includes(label, "spock") \/ includes(label, "research") THEN "spock"
    ELSE IF includes(label, "geordi") \/ includes(label, "engineer")
            \/ includes(label, "dashboard") \/ includes(label, "build") THEN "geordi"
    ELSE IF includes(label, "uhura") \/ includes(label, "email")
            \/ includes(label, "comms") \/ includes(label, "triage") THEN "uhura"
    ELSE IF includes(label, "quark") \/ includes(label, "trad")
            \/ includes(label, "crypto") \/ includes(label, "polymarket") THEN "quark"
    ELSE IF includes(label, "belanna") \/ includes(label, "torres") THEN "belanna"
    ELSE IF includes(label, "harry") \/ includes(label, "kim")
            \/ includes(label, "ops") THEN "harry"
    ELSE IF includes(label, "icheb") \/ includes(label, "borg") THEN "icheb"
    ELSE IF includes(label, "tom") \/ includes(label, "paris")
            \/ includes(label, "risk") THEN "tom"
    ELSE IF includes(label, "neelix") \/ includes(label, "resource") THEN "neelix"
    ELSE IF includes(label, "tuvok") \/ includes(label, "security") THEN "tuvok"
    ELSE IF includes(label, "doctor") \/ includes(label, "emh") THEN "doctor"
    ELSE "seven"

\* The if / else-if chain of analyzeCrewActivity: the crew member whose
\* counter and task list a session with this lower-cased label goes to
Route(label) ==
    IF includes(label, "spock") \/ includes(label, "research") THEN "spock"
    ELSE IF includes(label, "geordi") \/ includes(label, "engineer")
            \/ includes(label, "dashboard") \/ includes(label, "build") THEN "geordi"
    ELSE IF includes(label, "uhura") \/ includes(label, "email")
            \/ includes(label, "comms") \/ includes(label, "triage") THEN "uhura"
    ELSE IF includes(label, "quark") \/ includes(label, "trad")
            \/ includes(label, "crypto") \/ includes(label, "polymarket") THEN "quark"
    ELSE IF includes(label, "data") \/ includes(label, "qc")
            \/ includes(label, "review") THEN "data"
    ELSE IF includes(label, "belanna") \/ includes(label, "torres") THEN "belanna"
    ELSE IF includes(label, "harry") \/ includes(label, "kim")
            \/ includes(label, "ops") THEN "harry"
    ELSE IF includes(label, "icheb") \/ includes(label, "borg") THEN "icheb"
    ELSE IF includes(label, "tom") \/ includes(label, "paris")
            \/ includes(label, "risk") THEN "tom"
    ELSE IF includes(label, "neelix") \/ includes(label, "resource") THEN "neelix"
    ELSE IF includes(label, "tuvok") \/ includes(label, "security") THEN "tuvok"
    ELSE IF includes(label, "doctor") \/ includes(label, "emh") THEN "doctor"
    ELSE "seven"

\* analyzeCrewActivity(sessions): nothing is counted unless sessions is an
\* array; each of its sessions is counted and goes to one crew member.  A
\* task entry keeps the position of its session in place of startedAt and
\* channel.
analyzeCrewActivity(sessions) ==
    LET items == IF sessions.json = "array" THEN sessions.items ELSE <<>>
        RECURSIVE Each(_, _)
        Each(k, acc) ==
            IF k > Len(items) THEN acc
            ELSE LET session == items[k]
                     owner == Route(LabelOf(session))
                     taskInfo == [session |-> k, status |-> session.status]
                 IN  Each(k + 1,
                          [acc EXCEPT
                             !.crew[owner].active = @ + 1,
                             !.crew[owner].tasks = Append(@, taskInfo),
                             !.totalSessions = @ + 1,
                             !.totalRunning = IF session.status = "running"
                                              THEN @ + 1 ELSE @])
    IN  Each(1, [crew |-> [m \in Crew |-> [active |-> 0, tasks |-> <<>>]],
                 totalRunning |-> 0, totalSessions |-> 0])

\* Amounts of money are counted in thousandths.  Number.prototype.toFixed(2)
\* followed by parseFloat: the nearest hundredth (the model's amounts never
\* lie halfway between two)
toFixed2(x) ==
    IF x >= 0 THEN ((x + 5) \div 10) * 10 ELSE -(((-x) + 5) \div 10) * 10

\* trade.profit || 0
ProfitOf(trade) == IF "profit" \in DOMAIN trade THEN trade.profit ELSE 0

\* history[i].result: a string, null, or undefined when the trade has none
ResultOf(trade) == IF "result" \in DOMAIN trade THEN trade.result ELSE "undefined"

\* A sparkline of the balances as they are, without rounding
SparklineExact(start, history) ==
    LET RECURSIVE From(_, _)
        From(k, runningBalance) ==
            IF k > Len(history) THEN <<>>
            ELSE LET r == runningBalance + ProfitOf(history[k])
                 IN  <<r>> \o From(k + 1, r)
    IN  <<start>> \o From(1, start)

\* The sparkline of getQuarkData: the starting balance, then after each
\* trade the running balance, rounded to hundredths
Sparkline(start, history) ==
    LET RECURSIVE From(_, _)
        From(k, runningBalance) ==
            IF k > Len(history) THEN <<>>
            ELSE LET r == runningBalance + ProfitOf(history[k])
                 IN  <<toFixed2(r)>> \o From(k + 1, r)
    IN  <<start>> \o From(1, start)

\* The streak loop of getQuarkData, from the most recent trade backwards;
\* streakType starts as null ("null")
Streak(history) ==
    LET RECURSIVE Loop(_, _, _)
        Loop(i, currentStreak, streakType) ==
            IF i < 1 THEN [count |-> currentStreak, type |-> streakType]
            ELSE LET result == ResultOf(history[i])
                 IN  IF streakType = "null" THEN Loop(i - 1, 1, result)
                     ELSE IF result = streakType
                     THEN Loop(i - 1, currentStreak + 1, streakType)
                     ELSE [count |-> currentStreak, type |-> streakType]
    IN  Loop(Len(history), 0, "null")

\* What getQuarkData returns when the portfolio file is missing or cannot be
\* parsed
QuarkOffline ==
    [status |-> "OFFLINE", balance |-> 0, trades |-> 0, sparkline |-> <<100000>>,
     streak |-> [count |-> 0, type |-> "null"]]

\* getQuarkData(): portfolio is what the portfolio file holds
getQuarkData(portfolio) ==
    IF portfolio.kind = "ok"
    THEN LET data == portfolio.data
             history == data.history
         IN  [status |-> IF data.pending_trade THEN "TRADING" ELSE "MONITORING",
              balance |-> toFixed2(data.balance),
              startingBalance |-> toFixed2(data.starting_balance),
              trades |-> data.trades,
              sparkline |-> Sparkline(data.starting_balance, history),
              streak |-> Streak(history)]
    ELSE QuarkOffline

\* What getWorkLoopState returns when the state file is missing or unreadable
WorkLoopStopped == [status |-> "stopped", activeWorkers |-> {}]

\* getWorkLoopState(): state is what the state file holds
getWorkLoopState(state) ==
    IF state.kind = "ok"
    THEN [status |-> state.data.status, activeWorkers |-> state.data.activeWorkers]
    ELSE WorkLoopStopped

\* gatherBridgeData(): the sources in the order of its Promise.all list,
\* analyzeCrewActivity, then loadTasks() for the count of tasks in review.
\* env tells what each source finds: the gateway's answer, the portfolio
\* file, whether the git and system commands succeed, the work-loop state
\* file.  The mail counts are left out of the snapshot; its await is taken
\* to resume at once.
gatherBridgeData(c, h, tc, f, t, env) ==
    LET g1 == getGitStatus(c, "workspace", t, env.git)
        g2 == getGitStatus(g1.cache, "skills", t, env.git)
        g3 == getWorktrees(g2.cache, t, env.git)
        g4 == getSystemStats(g3.cache, t, env.system)
        r1 == Ran(h.ran, g1, "gitStatus.workspace")
        r2 == Ran(r1, g2, "gitStatus.skills")
        r3 == Ran(r2, g3, "gitStatus.worktrees")
        sessions == getSessions(env.sessions)
        crewActivity == analyzeCrewActivity(sessions)
        ld == LoadTasks(tc, f, t)
    IN  [data |-> [timestamp |-> t, system |-> Val(g4.ret), git |-> Val(g1.ret),
                   sessions |-> sessions,
                   crew |-> crewActivity,
                   quark |-> getQuarkData(env.quark),
                   workLoop |-> getWorkLoopState(env.workLoop),
                   review |-> Cardinality({i \in 1..Len(ld.doc.tasks) :
                                              ld.doc.tasks[i].status = "review"})],
         cache |-> g4.cache, tasksCache |-> ld.cache,
         hist |-> LET gets == <<GetObs(c, h.ran, "gitStatus.workspace", t, g1, env.git),
                                GetObs(g1.cache, r1, "gitStatus.skills", t, g2, env.git),
                                GetObs(g2.cache, r2, "gitStatus.worktrees", t, g3, env.git),
                                GetObs(g3.cache, r3, "systemStats", t, g4, env.system)>>
                  IN  [gets |-> Marked(gets, h.invalid, c, t),
                       ran |-> Ran(r3, g4, "systemStats"),
                       invalid |-> h.invalid \ Keys(gets)]]

\* A portfolio file without trades, and the work-loop state file of an idle loop
Portfolio(start, history) ==
    [kind |-> "ok",
     data |-> [starting_balance |-> start, balance |-> start, trades |-> Len(history),
               pending_trade |-> FALSE, history |-> history]]

WorkLoopIdle == [kind |-> "ok", data |-> [status |-> "running", activeWorkers |-> {}]]

\* What the sources find: the commands succeed or fail; the gateway answers
\* with no sessions, the portfolio and the work-loop state are readable
Envs == [git : {"ok", "fail"}, system : {"ok", "fail"},
         sessions : {[kind |-> "ok", body |-> JArray(<<>>)]},
         quark : {Portfolio(100000, <<>>)},
         workLoop : {WorkLoopIdle}]

-----------------------------------------------------------------------------
(* The messages document *)

getDefaultMessages == [messages |-> <<>>]

\* loadMessages: the cached document while it is fresh, else a fresh parse of
\* messages.json (which refills the cache), else an empty document (not
\* cached).  The envelope fields version and lastUpdated and the timestamps
\* of the messages are left out of the model's documents.
loadMessages(c, f, t) ==
    IF ~IsNull(c.data) /\ (t - c.lastLoad) < MESSAGES_CACHE_TTL
    THEN [doc |-> Val(c.data), cache |-> c, fromCache |-> TRUE]
    ELSE IF ~IsNull(f)
    THEN [doc |-> Val(f), cache |-> [data |-> f, lastLoad |-> t], fromCache |-> TRUE]
    ELSE [doc |-> getDefaultMessages, cache |-> c, fromCache |-> FALSE]

\* saveMessages(messagesData) on a document object whose content the caller
\* has changed into doc; written tells whether writeFileSync succeeds ("ok")
\* or throws.  aliased says that the object is the one held in c.data.
saveMessages(doc, c, aliased, f, written) ==
    IF written = "ok"
    THEN [ok |-> TRUE, file |-> Some(doc), cache |-> [c EXCEPT !.data = None]]
    ELSE [ok |-> FALSE, file |-> f,
          cache |-> IF aliased THEN [c EXCEPT !.data = Some(doc)] ELSE c]

\* createMessage(from, to, subject): returns the message whatever
\* saveMessages answered
createMessage(c, f, t, id, from, to, subject, written) ==
    LET ld == loadMessages(c, f, t)
        message == [id |-> id, from |-> toLowerCase(from), to |-> toLowerCase(to),
                    subject |-> subject, read |-> FALSE, status |-> "pending",
                    taskId |-> NoAgent]
        doc == [ld.doc EXCEPT !.messages = Append(@, message)]
        sv == saveMessages(doc, ld.cache, ld.fromCache, f, written)
    IN  [ret |-> message, file |-> sv.file, cache |-> sv.cache, ok |-> sv.ok]

\* const agents = ['seven', 'geordi', ...]
agents == {"seven", "geordi", "uhura", "spock", "quark", "data", "belanna", "harry",
           "icheb", "tom", "neelix", "tuvok", "doctor"}

\* !m.read, of a message whose read is true, false or missing
NotRead(m) == "read" \notin DOMAIN m \/ ~m.read

\* { total: list.length, unread: list.filter(m => !m.read).length,
\*   pending: list.filter(m => m.status === 'pending').length }
CountsOf(list) ==
    [total |-> Len(list),
     unread |-> Len(SelectSeq(list, NotRead)),
     pending |-> Len(SelectSeq(list, LAMBDA m : "status" \in DOMAIN m /\ m.status = "pending"))]

\* Counts by agent that are taken over all the messages
getMessageCountsUnfiltered(data) ==
    [total |-> CountsOf(data.messages).total,
     unread |-> CountsOf(data.messages).unread,
     pending |-> CountsOf(data.messages).pending,
     byAgent |-> [agent \in agents |-> CountsOf(data.messages)]]

\* getMessageCounts(), on the document loadMessages returned
getMessageCounts(data) ==
    [total |-> CountsOf(data.messages).total,
     unread |-> CountsOf(data.messages).unread,
     pending |-> CountsOf(data.messages).pending,
     byAgent |-> [agent \in agents |->
                    CountsOf(SelectSeq(data.messages,
                                       LAMBDA m : "to" \in DOMAIN m /\ m.to = agent))]]

\* broadcastMessages(): loadMessages(), getMessageCounts() and broadcast
broadcastMessages(h, c, f, t) ==
    LET ld == loadMessages(c, f, t) IN
    [hub |-> broadcast(h, [type |-> "messages_update", data |-> ld.doc,
                           counts |-> getMessageCounts(ld.doc)]),
     cache |-> ld.cache]

\* updateMessage(messageId, updates): returns null when the document does not
\* hold the message, and the message whatever saveMessages answered
updateMessage(c, f, t, messageId, updates, written) ==
    LET ld == loadMessages(c, f, t)
        msgIndex == FindIndex(ld.doc.messages, messageId)
    IN  IF msgIndex = 0
        THEN [ret |-> None, file |-> f, cache |-> ld.cache, ok |-> TRUE]
        ELSE LET doc == [ld.doc EXCEPT
                           !.messages[msgIndex] = MergeTask(@, updates)]
                 sv == saveMessages(doc, ld.cache, ld.fromCache, f, written)
             IN  [ret |-> Some(doc.messages[msgIndex]), file |-> sv.file,
                  cache |-> sv.cache, ok |-> sv.ok]

\* The id of a task as a message holds it in taskId, beside the null of a
\* message without a task
TaskRef(id) == ToString(id)

\* createTask(title, description, assignee, 'general', priority) as the
\* create-task handler of a message calls it: the task carries its title
createTaskTitled(c, f, t, id, title, assignee, priority, outcome) ==
    LET ld == LoadTasks(c, f, t)
        task == [id |-> id, title |-> title,
                 status |-> IF Given(assignee) THEN "assigned" ELSE "inbox",
                 assignee |-> assignee, priority |-> priority,
                 comments |-> <<>>, logs |-> <<>>]
        created == Append(ld.doc.activity, Activity("created", "system", id, Absent, Absent))
        doc == [ld.doc EXCEPT
                  !.tasks = Append(@, task),
                  !.activity = IF Given(assignee)
                               THEN Append(created, [action |-> "assigned", agent |-> "system",
                                                     taskId |-> id, from |-> Absent,
                                                     to |-> Absent, target |-> assignee])
                               ELSE created]
    IN  Mutated(doc, task, ld, f, outcome)

\* A reply that leaves the status of the message as it is
RepliedKeepStatus(message, fields) ==
    LET replies == IF "replies" \in DOMAIN message THEN message.replies ELSE <<>>
        reply == [from |-> IF "from" \in DOMAIN fields /\ Truthy(fields.from)
                           THEN fields.from ELSE "system",
                  text |-> fields.text]
    IN  MergeTask(message, [replies |-> Append(replies, reply)])

\* The message after the reply handler has pushed the reply of the request
\* and set the status: body.complete ? 'completed' : 'acknowledged'
Replied(message, fields) ==
    LET replies == IF "replies" \in DOMAIN message THEN message.replies ELSE <<>>
        reply == [from |-> IF "from" \in DOMAIN fields /\ Truthy(fields.from)
                           THEN fields.from ELSE "system",
                  text |-> fields.text]
    IN  MergeTask(message,
                  [replies |-> Append(replies, reply),
                   status |-> IF "complete" \in DOMAIN fields /\ fields.complete
                              THEN "completed" ELSE "acknowledged"])

-----------------------------------------------------------------------------
(* The body of a request *)

\* What a client sends as body: nothing, text that JSON.parse rejects, the
\* text null, or the text of an object with these fields
NoBody == [text |-> "empty"]
BadBody == [text |-> "invalid"]
NullBody == [text |-> "null"]
ObjectBody(fields) == [text |-> "object", fields |-> fields]

\* parseBody(req): rejects with 'Invalid JSON', or resolves to {} for no
\* body, to null, or to the object
parseBody(body) ==
    CASE body.text = "invalid" -> [kind |-> "rejected"]
      [] body.text = "empty" -> [kind |-> "object", fields |-> <<>>]
      [] body.text = "null" -> [kind |-> "null"]
      [] body.text = "object" -> [kind |-> "object", fields |-> body.fields]

\* body.field is truthy (a read of a field of null throws)
Has(parsed, field) ==
    /\ parsed.kind = "object"
    /\ field \in DOMAIN parsed.fields
    /\ Truthy(parsed.fields[field])

-----------------------------------------------------------------------------
(* Observations of a handler *)

PersistedDoc(f) == IF IsNull(f) THEN getDefaultTasks ELSE Val(f)

NoCache == [data |-> None, lastLoad |-> 0]

View == LoadTasks(tasksCache, file, now).doc

\* The activity records a handler appended: what follows the old log in the new
Added(pre, post) ==
    IF Len(post) >= Len(pre) /\ SubSeq(post, 1, Len(pre)) = pre
    THEN SubSeq(post, Len(pre) + 1, Len(post))
    ELSE <<[action |-> "rewritten"]>>

\* Whether the document holds a task with this id, and the status of that task
Present(doc, taskId) == \E i \in 1..Len(doc.tasks) : doc.tasks[i].id = taskId

StatusOf(doc, taskId) ==
    IF Present(doc, taskId)
    THEN doc.tasks[CHOOSE i \in 1..Len(doc.tasks) : doc.tasks[i].id = taskId].status
    ELSE Absent

\* stored is the last n elements of raw, in their order, or all of raw
KeptLast(raw, stored, n) ==
    /\ Len(stored) = (IF Len(raw) > n THEN n ELSE Len(raw))
    /\ \A k \in 1..Len(stored) : stored[k] = raw[Len(raw) - Len(stored) + k]

\* The document stored holds the most recent activity records and the most
\* recent logs of every task of the document raw that was handed to saveTasks
KeptRecent(raw, stored) ==
    /\ KeptLast(raw.activity, stored.activity, MAX_ACTIVITY_ENTRIES)
    /\ Len(stored.tasks) = Len(raw.tasks)
    /\ \A i \in 1..Len(raw.tasks) :
          KeptLast(raw.tasks[i].logs, stored.tasks[i].logs, MAX_LOGS_PER_TASK)

LogsLen(doc) ==
    LET RECURSIVE Sum(_)
        Sum(i) == IF i = 0 THEN 0 ELSE Len(doc.tasks[i].logs) + Sum(i - 1)
    IN  Sum(Len(doc.tasks))

\* What a handler that ran a store operation with result r did and answered:
\* the operation and its arguments, whether it returned null, the HTTP status
\* (0 on the real-time channel), what saveTasks answered ("none": not called),
\* whether broadcastTasks() was called, whether the document the operation
\* loaded held the task (found) and the status it had there (old), the
\* activity appended, whether tasks.json (fileSame) and the document that
\* loadTasks() returns and the cache holds (viewSame) are what they were
\* before, whether tasks.json is not what the acknowledged operation
\* makes of the persisted document (lost; ref is the operation applied to
\* the persisted document and written), and for a successful save whether
\* tasks.json holds the most recent records of what was handed to saveTasks
\* (kept) and how many activity records and logs were dropped, and the tasks
\* that createTask put at the end of the document (tasksAdded).  Of a handler
\* of the real-time channel, last tells the connection (to), the frames it
\* passed to ws.send (issued) and those that went out (sent); of a keepalive
\* tick, the sockets terminated and those that had left a ping unanswered
\* (silent).
Obs(op, taskId, updates, r, code, bcast, ref) ==
    [op |-> op, taskId |-> taskId, updates |-> updates,
     ret |-> IF IsNull(r.ret) THEN "null" ELSE "entity", code |-> code,
     saved |-> r.saved, bcast |-> bcast, found |-> Present(r.pre, taskId),
     old |-> StatusOf(r.pre, taskId),
     added |-> Added(r.pre.activity, r.raw.activity),
     fileSame |-> (r.file = file),
     viewSame |-> /\ LoadTasks(r.cache, r.file, now).doc = View
                  /\ r.cache.data \in {tasksCache.data, file},
     lost |-> (~IsNull(r.ret) /\ PersistedDoc(r.file) # PersistedDoc(ref.file)),
     kept |-> (r.saved = "ok" => KeptRecent(r.raw, Val(r.file))),
     dropped |-> IF r.saved = "ok"
                 THEN <<Len(r.raw.activity) - Len(Val(r.file).activity),
                        LogsLen(r.raw) - LogsLen(Val(r.file))>>
                 ELSE <<0, 0>>,
     tasksAdded |-> IF op = "createTask" THEN Added(r.pre.tasks, r.raw.tasks) ELSE <<>>,
     to |-> 0, issued |-> <<>>, sent |-> <<>>, terminated |-> {}, silent |-> {},
     arch |-> NoObs.arch, msg |-> NoObs.msg]

\* The handlers below share their tail: after the store operation with result
\* r they call broadcastTasks() when bcast, then broadcast the payloads of
\* extra, and answer code.
Finish(op, taskId, updates, r, code, bcast, extra, ref) ==
    LET b == broadcastTasks(Hub, r.cache, r.file, now)
        h0 == IF bcast THEN b.hub ELSE Hub
        h1 == IF Len(extra) = 0 THEN h0 ELSE broadcast(h0, extra[1])
        o == Obs(op, taskId, updates, r, code, bcast, ref)
        \* a PATCH that changed the status of a task and was saved, seen by
        \* a registered client; any other change of the tasks ends the watch
        p == IF clients = {} \/ r.saved = "none" THEN h1.window.patch
             ELSE IF r.saved = "ok" /\ code = 200 /\ op = "updateTask" /\ o.added # <<>>
             THEN Some([taskId |-> taskId, status |-> updates.status])
             ELSE IF op = "addTaskLog" THEN h1.window.patch
             ELSE None
    IN  /\ WindowRoom(2)
        /\ file' = r.file
        /\ tasksCache' = IF bcast THEN b.cache ELSE r.cache
        /\ fileChanged' = (fileChanged \/ r.saved = "ok")
        /\ SetHub([h1 EXCEPT !.window.patch = p])
        /\ last' = o
        /\ lastFlush' = NoFlush
        /\ hist' = NoGets
        /\ UNCHANGED <<now, watching, lastTasksState, extWrites, sideVars, clients, readyState, conn, cache>>

\* Bounding guards: the handlers append at most MaxActivity activity records,
\* and at most MaxEntries entries to a list of a task.  The records of the
\* model's handlers carry no id (generateId('act')); those of a document
\* that Init puts in tasks.json do, and are not counted.
Appended(s) == Cardinality({k \in 1..Len(s) : "id" \notin DOMAIN s[k]})

Room(n) ==
    /\ Appended(View.activity) + n <= MaxActivity
    /\ Appended(PersistedDoc(file).activity) + n <= MaxActivity

EntryRoom(taskId, field) ==
    LET i == FindIndex(View.tasks, taskId) IN
    i # 0 => Appended(View.tasks[i][field]) < MaxEntries

\* The ids requests name: those generateId can hand out, and one it never does
TaskIds == 1..(MaxIds + 1)
Conns == 1..MaxClients
UpdateInputs == {[status |-> "inbox"], [status |-> "done"], [status |-> ""],
                 [priority |-> "medium"]}
Assignees == {NoAgent, "", "geordi"}

-----------------------------------------------------------------------------
(* REST handlers of the tasks API *)

\* POST /api/tasks
RestCreateTask(assignee, outcome) ==
    /\ nextId <= MaxIds
    /\ Room(2)
    /\ nextId' = nextId + 1
    /\ Finish("createTask", nextId, [assignee |-> assignee],
              createTask(tasksCache, file, now, nextId, OrNull(assignee), outcome),
              201, TRUE, <<>>,
              createTask(NoCache, file, now, nextId, OrNull(assignee), "ok"))

\* PATCH /api/tasks/:id
RestPatchTask(taskId, updates, outcome) ==
    /\ Room(1)
    /\ UNCHANGED nextId
    /\ LET r == updateTask(tasksCache, file, now, taskId, updates, outcome)
           ok == ~IsNull(r.ret)
       IN  Finish("updateTask", taskId, updates, r, IF ok THEN 200 ELSE 404, ok, <<>>,
                  updateTask(NoCache, file, now, taskId, updates, "ok"))

\* DELETE /api/tasks/:id
RestDeleteTask(taskId, outcome) ==
    /\ Room(1)
    /\ UNCHANGED nextId
    /\ LET r == deleteTask(tasksCache, file, now, taskId, outcome)
           ok == ~IsNull(r.ret)
       IN  Finish("deleteTask", taskId, <<>>, r, IF ok THEN 200 ELSE 404, ok, <<>>,
                  deleteTask(NoCache, file, now, taskId, "ok"))

\* POST /api/tasks/:id/comments
RestAddComment(taskId, outcome) ==
    /\ Room(1)
    /\ EntryRoom(taskId, "comments")
    /\ UNCHANGED nextId
    /\ LET r == addTaskComment(tasksCache, file, now, taskId, "system", outcome)
           ok == ~IsNull(r.ret)
       IN  Finish("addTaskComment", taskId, <<>>, r, IF ok THEN 201 ELSE 404, ok, <<>>,
                  addTaskComment(NoCache, file, now, taskId, "system", "ok"))

\* GET /api/tasks (no filter, no git-locks state file)
RestGetTasks ==
    /\ UNCHANGED nextId
    /\ LET ld == LoadTasks(tasksCache, file, now)
           r == [ret |-> Some(ld.doc), file |-> file, cache |-> ld.cache,
                 saved |-> "none", pre |-> ld.doc, raw |-> ld.doc]
       IN  Finish("getTasks", 0, <<>>, r, 200, FALSE, <<>>, r)

\* tasksData.gitLocks = {...}: the document object gets the field
WithGitLocks(doc, locks) ==
    [k \in DOMAIN doc \cup {"gitLocks"} |->
        IF k = "gitLocks" THEN [totalLocks |-> locks] ELSE doc[k]]

\* GET /api/tasks (no filter) while the git-locks state file exists and
\* holds locks locks: the lock statistics are stored in the document object
\* that loadTasks() returned, which is the cached one unless tasks.json is
\* missing
RestGetTasksEnriched(locks) ==
    /\ UNCHANGED nextId
    /\ LET ld == LoadTasks(tasksCache, file, now)
           doc == WithGitLocks(ld.doc, locks)
           c == IF ld.fromCache THEN [ld.cache EXCEPT !.data = Some(doc)] ELSE ld.cache
           r == [ret |-> Some(doc), file |-> file, cache |-> c,
                 saved |-> "none", pre |-> ld.doc, raw |-> ld.doc]
       IN  Finish("getTasks", 0, [locks |-> locks], r, 200, FALSE, <<>>, r)

\* POST /api/tasks/archive: archiveOldTasks and pruneTaskData on the document
\* of loadTasks(), saveTasks when either changed it, loadTasks() again for the
\* sizes of the answer.  last.arch tells the number answered (archived), how
\* many tasks of tasks.json were due (eligible), whether the archive file
\* could be read and written (writable), whether tasks.json now holds
\* exactly the tasks not due and the archive file its old content followed
\* by those due (moved), and whether both files are as they were (same).
RestArchive(written, outcome) ==
    LET ld == LoadTasks(tasksCache, file, now)
        a == archiveOldTasks(ld.doc, now, archive, written)
        doc == pruneTaskData(a.doc)
        pruned == doc # a.doc
        saving == a.count > 0 \/ pruned
        sv == saveTasks(doc, ld.cache, ld.fromCache, file, outcome)
        f1 == IF saving THEN sv.file ELSE file
        c1 == IF saving THEN sv.cache ELSE ld.cache
        pre == PersistedDoc(file).tasks
        due == SelectSeq(pre, LAMBDA task : ToArchive(task, now))
        writable == (IsNull(archive) \/ IsArray(Val(archive))) /\ written = "ok"
    IN  /\ file' = f1
        /\ archive' = a.archive
        /\ tasksCache' = LoadTasks(c1, f1, now).cache
        /\ fileChanged' = (fileChanged \/ (saving /\ sv.ok))
        /\ last' = [NoObs EXCEPT
                      !.op = "archive", !.code = 200,
                      !.saved = IF ~saving THEN "none" ELSE IF sv.ok THEN "ok" ELSE "fail",
                      !.arch = [archived |-> a.count, eligible |-> Len(due),
                                writable |-> writable,
                                moved |->
                                  /\ PersistedDoc(f1).tasks =
                                        SelectSeq(pre, LAMBDA task : ~ToArchive(task, now))
                                  /\ IF Len(due) = 0 THEN a.archive = archive
                                     ELSE /\ writable
                                          /\ a.archive =
                                               Some(ArchiveOf(
                                                 (IF IsNull(archive) THEN <<>>
                                                  ELSE Val(archive).items) \o due)),
                                same |-> f1 = file /\ a.archive = archive]]
        /\ lastFlush' = NoFlush
        /\ hist' = NoGets
        /\ UNCHANGED <<now, nextId, watching, lastTasksState, extWrites, messageVars,
                       gatewayStatusPromise, loop, hubVars, cache>>

-----------------------------------------------------------------------------
(* REST handlers that read the body of their request *)

\* A handler that answers the request with code and does nothing else
Answer(route, body, code) ==
    /\ last' = [NoObs EXCEPT !.op = "answered", !.code = code,
                             !.updates = [route |-> route, body |-> body]]
    /\ lastFlush' = NoFlush
    /\ hist' = NoGets
    /\ UNCHANGED <<now, storeVars, sideVars, hubVars, cache>>

\* POST /api/tasks with its body: a rejected parse and a read of null.title
\* end in the catch block
RestPostTasks(body, outcome) ==
    LET parsed == parseBody(body) IN
    IF Has(parsed, "title")
    THEN RestCreateTask(IF "assignee" \in DOMAIN parsed.fields
                        THEN parsed.fields.assignee ELSE NoAgent,
                        outcome)
    ELSE outcome = "ok" /\ Answer("POST /api/tasks", body, 400)

\* PATCH /api/tasks/:id with its body
RestPatchTaskBody(taskId, body, outcome) ==
    LET parsed == parseBody(body) IN
    IF parsed.kind = "object"
    THEN RestPatchTask(taskId, parsed.fields, outcome)
    ELSE outcome = "ok" /\ Answer("PATCH /api/tasks/:id", body, 400)

\* POST /api/spawn-task: the task is created by a command, run with execSync,
\* that is another program; cli tells whether the command succeeds.  Its
\* catch block answers 500.
RestSpawnTask(body, cli) ==
    LET parsed == parseBody(body) IN
    IF parsed.kind # "object" THEN cli = "ok" /\ Answer("POST /api/spawn-task", body, 500)
    ELSE IF ~Has(parsed, "title")
    THEN cli = "ok" /\ Answer("POST /api/spawn-task", body, 400)
    ELSE Answer("POST /api/spawn-task", body, IF cli = "ok" THEN 201 ELSE 500)

\* The document loadMessages() returns
MessagesView == loadMessages(messagesCache, messagesFile, now).doc

PersistedMessages == IF IsNull(messagesFile) THEN getDefaultMessages ELSE Val(messagesFile)

\* POST /api/messages
RestPostMessage(body, written) ==
    LET parsed == parseBody(body) IN
    IF ~(Has(parsed, "to") /\ Has(parsed, "subject"))
    THEN written = "ok" /\ Answer("POST /api/messages", body, 400)
    ELSE
    LET cm == createMessage(messagesCache, messagesFile, now, nextId,
                            IF Has(parsed, "from") THEN parsed.fields.from ELSE "seven",
                            parsed.fields.to, parsed.fields.subject, written)
        b == broadcastMessages(Hub, cm.cache, cm.file, now)
    IN  /\ WindowRoom(1)
        /\ Len(MessagesView.messages) < MaxMessages
        /\ Len(PersistedMessages.messages) < MaxMessages
        /\ nextId <= MaxIds + MaxMessages
        /\ nextId' = nextId + 1
        /\ messagesFile' = cm.file
        /\ messagesCache' = b.cache
        /\ SetHub(b.hub)
        /\ last' = [NoObs EXCEPT !.op = "createMessage", !.code = 201, !.bcast = TRUE,
                                 !.taskId = nextId, !.updates = parsed.fields,
                                 !.saved = IF cm.ok THEN "ok" ELSE "fail",
                                 !.lost =
                                   /\ cm.ok
                                   /\ cm.file # createMessage(NoCache, messagesFile, now,
                                         nextId, cm.ret.from, parsed.fields.to,
                                         parsed.fields.subject, written).file]
        /\ lastFlush' = NoFlush
        /\ hist' = NoGets
        /\ UNCHANGED <<now, file, tasksCache, watching, fileChanged, lastTasksState,
                       extWrites, archive, gatewayStatusPromise, loop, clients,
                       readyState, conn, cache>>

\* The order of new Date(m.timestamp): the messages of the model are created
\* at different instants, in the order of their ids
Timestamp(m) == m.id

\* messages.sort((a, b) => new Date(b.timestamp) - new Date(a.timestamp)):
\* sorts the array in place, the latest first, equal ones in their order
RECURSIVE SortByTimestampDesc(_)
SortByTimestampDesc(list) ==
    IF Len(list) <= 1 THEN list
    ELSE LET rest == SortByTimestampDesc(Tail(list))
             m == Head(list)
             before == SelectSeq(rest, LAMBDA x : Timestamp(x) > Timestamp(m))
             after == SelectSeq(rest, LAMBDA x : Timestamp(x) <= Timestamp(m))
         IN  before \o <<m>> \o after

\* GET /api/messages, with ?agent= or without a filter.  filter() makes a
\* new array; without a filter the array sorted is the one of the document
\* loadMessages() returned, the cached one unless messages.json is missing.
RestGetMessages(agent) ==
    LET ld == loadMessages(messagesCache, messagesFile, now)
        messages == IF Truthy(agent)
                    THEN SelectSeq(ld.doc.messages,
                                   LAMBDA m : "to" \in DOMAIN m /\ m.to = toLowerCase(agent))
                    ELSE ld.doc.messages
        sorted == SortByTimestampDesc(messages)
        c == IF ~Truthy(agent) /\ ld.fromCache
             THEN [ld.cache EXCEPT !.data = Some([ld.doc EXCEPT !.messages = sorted])]
             ELSE ld.cache
        counts == getMessageCounts(loadMessages(c, messagesFile, now).doc)
    IN  /\ messagesCache' = c
        /\ last' = [NoObs EXCEPT !.op = "getMessages", !.code = 200,
                                 !.updates = [messages |-> sorted, counts |-> counts]]
        /\ lastFlush' = NoFlush
        /\ hist' = NoGets
        /\ UNCHANGED <<now, storeVars, archive, messagesFile, gatewayStatusPromise, loop,
                       hubVars, cache>>

\* The replies of a message
RepliesOf(message) == IF "replies" \in DOMAIN message THEN message.replies ELSE <<>>

\* POST /api/messages/:id/reply.  last.msg tells whether the document held
\* the message (found), how many entries its replies grew by, the old ones
\* kept in place (appended; -1 when they were not), its status afterwards,
\* whether every other message of the document is as it was (others),
\* whether the document loadMessages returns and messages.json are as they
\* were (same), and whether messages.json holds the document after a
\* successful write (stored); last.lost that a successful write left
\* messages.json other than the reply makes of the document persisted
\* before it.
RestPostReply(messageId, body, written) ==
    LET parsed == parseBody(body)
        route == "POST /api/messages/:id/reply"
    IN
    IF ~Has(parsed, "text") THEN written = "ok" /\ Answer(route, body, 400)
    ELSE
    LET ld == loadMessages(messagesCache, messagesFile, now)
        i == FindIndex(ld.doc.messages, messageId)
    IN  IF i = 0
        THEN /\ written = "ok"
             /\ messagesCache' = ld.cache
             /\ last' = [NoObs EXCEPT
                           !.op = "reply", !.taskId = messageId, !.code = 404,
                           !.updates = parsed.fields,
                           !.msg = [NoObs.msg EXCEPT
                                      !.same = (ld.doc = MessagesView)]]
             /\ lastFlush' = NoFlush
             /\ hist' = NoGets
             /\ UNCHANGED <<now, storeVars, archive, messagesFile, gatewayStatusPromise,
                            loop, hubVars, cache>>
        ELSE
        LET old == ld.doc.messages[i]
            new == Replied(old, parsed.fields)
            doc == [ld.doc EXCEPT !.messages[i] = new]
            sv == saveMessages(doc, ld.cache, ld.fromCache, messagesFile, written)
            b == broadcastMessages(Hub, sv.cache, sv.file, now)
            post == loadMessages(b.cache, sv.file, now).doc
            j == FindIndex(post.messages, messageId)
        IN  /\ WindowRoom(1)
            /\ Len(RepliesOf(old)) < MaxReplies
            /\ messagesFile' = sv.file
            /\ messagesCache' = b.cache
            /\ SetHub(b.hub)
            /\ last' = [NoObs EXCEPT
                          !.op = "reply", !.taskId = messageId, !.code = 201,
                          !.bcast = TRUE, !.updates = parsed.fields,
                          !.saved = IF sv.ok THEN "ok" ELSE "fail",
                          !.lost =
                            LET pd == PersistedMessages
                                pi == FindIndex(pd.messages, messageId)
                            IN  /\ sv.ok
                                /\ \/ pi = 0
                                   \/ Val(sv.file) #
                                        [pd EXCEPT !.messages[pi] =
                                                     Replied(pd.messages[pi], parsed.fields)],
                          !.msg = [found |-> TRUE,
                                   appended |->
                                     IF j # 0 /\ Len(RepliesOf(post.messages[j])) >=
                                                   Len(RepliesOf(old))
                                          /\ SubSeq(RepliesOf(post.messages[j]), 1,
                                                    Len(RepliesOf(old))) = RepliesOf(old)
                                     THEN Len(RepliesOf(post.messages[j])) - Len(RepliesOf(old))
                                     ELSE -1,
                                   status |-> IF j = 0 THEN "null"
                                              ELSE post.messages[j].status,
                                   others |->
                                     /\ Len(post.messages) = Len(MessagesView.messages)
                                     /\ \A k \in 1..Len(post.messages) :
                                           k # i => post.messages[k] = MessagesView.messages[k],
                                   same |-> post = MessagesView /\ sv.file = messagesFile,
                                   stored |-> sv.ok => sv.file = Some(post)]]
            /\ lastFlush' = NoFlush
            /\ hist' = NoGets
            /\ UNCHANGED <<now, storeVars, archive, gatewayStatusPromise, loop, clients,
                           readyState, conn, cache>>

-----------------------------------------------------------------------------
(* Handlers of the real-time channel *)

\* The frames of the handlers below come from a registered, open connection
Sender(c) == c \in clients /\ readyState[c] = "OPEN" /\ conn[c].phase = "ready"

\* update_task
WsUpdateTask(c, taskId, updates, outcome) ==
    /\ Sender(c)
    /\ Room(1)
    /\ UNCHANGED nextId
    /\ LET r == updateTask(tasksCache, file, now, taskId, updates, outcome)
       IN  Finish("updateTask", taskId, updates, r, 0, ~IsNull(r.ret), <<>>,
                  updateTask(NoCache, file, now, taskId, updates, "ok"))

\* add_task_log
WsAddTaskLog(c, taskId, outcome) ==
    /\ Sender(c)
    /\ Room(1)
    /\ EntryRoom(taskId, "logs")
    /\ UNCHANGED nextId
    /\ LET r == addTaskLog(tasksCache, file, now, taskId, "update", "seven", outcome)
           ok == ~IsNull(r.ret)
       IN  Finish("addTaskLog", taskId, <<>>, r, 0, ok,
                  IF ok THEN <<[type |-> "task_log_update", taskId |-> taskId,
                                log |-> Val(r.ret)]>>
                  ELSE <<>>,
                  addTaskLog(NoCache, file, now, taskId, "update", "seven", "ok"))

-----------------------------------------------------------------------------
(* The tasks file watcher, and the other process writing tasks.json *)

\* tasksData.activity.filter(a => a.taskId === id && a.action === 'moved' &&
\*                                a.to === 'done' && a.agent === 'data').length > 0
CompletedByData(activity, taskId) ==
    \E k \in 1..Len(activity) :
        /\ activity[k].taskId = taskId
        /\ activity[k].action = "moved"
        /\ activity[k].to = "done"
        /\ activity[k].agent = "data"

\* lastTask && lastTask.status !== 'done' && task.status === 'done'
NewlyDone(lastTasks, task) ==
    LET j == FindIndex(lastTasks, task.id) IN
    /\ j # 0
    /\ lastTasks[j].status # "done"
    /\ task.status = "done"

\* currentTasks.forEach(...) from task k on.  st holds the document object
\* being changed, the cache, whether the object is still the cached one, the
\* file, the hub and whether a save succeeded or failed; outcome is what the
\* safe writer answers to the saves of this callback.
RECURSIVE WatchLoop(_, _, _, _, _)
WatchLoop(k, currentTasks, lastTasks, st, outcome) ==
    IF k > Len(currentTasks) THEN st
    ELSE LET task == currentTasks[k] IN
         IF NewlyDone(lastTasks, task) /\ CompletedByData(st.doc.activity, task.id)
         THEN LET payload == [taskId |-> task.id, assignee |-> task.assignee]
                  h == broadcast(st.hub, [type |-> "task_completed", data |-> payload])
                  doc == [st.doc EXCEPT !.activity =
                             Append(@, Activity("qc_approved", "data", task.id, Absent, Absent))]
                  sv == saveTasks(doc, st.cache, st.aliased, st.file, outcome)
              IN  WatchLoop(k + 1, currentTasks, lastTasks,
                            [doc |-> sv.doc, cache |-> sv.cache, aliased |-> sv.aliased,
                             file |-> sv.file, hub |-> h,
                             saved |-> IF sv.ok THEN "ok" ELSE "fail"],
                            outcome)
         ELSE WatchLoop(k + 1, currentTasks, lastTasks, st, outcome)

\* lastTasksState = JSON.parse(JSON.stringify(tasksData)); the callback reads
\* only the id and the status of its tasks, which is what the model keeps
Snapshot(doc) ==
    [tasks |-> [i \in 1..Len(doc.tasks) |->
                  [id |-> doc.tasks[i].id, status |-> doc.tasks[i].status]]]

\* watchFile(TASKS_FILE, ...) callback
TasksFileWatcher(outcome) ==
    /\ watching
    /\ fileChanged
    /\ WindowRoom(MaxIds + 1)
    /\ LET ld == LoadTasks(tasksCache, file, now)
           st0 == [doc |-> ld.doc, cache |-> ld.cache, aliased |-> ld.fromCache,
                   file |-> file, hub |-> Hub, saved |-> "none"]
           st == IF IsNull(lastTasksState) THEN st0
                 ELSE WatchLoop(1, ld.doc.tasks, Val(lastTasksState).tasks, st0, outcome)
           b == broadcastTasks(st.hub, st.cache, st.file, now)
       IN  /\ st.saved = "none" => outcome = "ok"
           /\ lastTasksState' = Some(Snapshot(st.doc))
           /\ file' = st.file
           /\ tasksCache' = b.cache
           /\ fileChanged' = (st.saved = "ok")
           /\ SetHub(b.hub)
           /\ last' = [NoObs EXCEPT !.op = "tasksWatcher", !.saved = st.saved,
                                    !.bcast = TRUE,
                                    !.updates =
                                      IF IsNull(lastTasksState) THEN {}
                                      ELSE {ld.doc.tasks[k].id : k \in
                                              {k \in 1..Len(ld.doc.tasks) :
                                                 /\ NewlyDone(Val(lastTasksState).tasks,
                                                              ld.doc.tasks[k])
                                                 /\ CompletedByData(ld.doc.activity,
                                                                    ld.doc.tasks[k].id)}},
                                    !.added = Added(ld.doc.activity, st.doc.activity),
                                    !.fileSame = (st.file = file)]
    /\ lastFlush' = NoFlush
    /\ hist' = NoGets
    /\ UNCHANGED <<now, nextId, watching, extWrites, sideVars, clients, readyState, conn, cache>>

\* The command-line companion, another process: it reads tasks.json, moves
\* task taskId to done as the QC officer 'data', and writes the file back
ExternalWrite(taskId) ==
    /\ extWrites < MaxExtWrites
    /\ ~IsNull(file)
    /\ Appended(Val(file).activity) < MaxActivity
    /\ LET doc == Val(file)
           i == FindIndex(doc.tasks, taskId)
       IN  /\ i # 0
           /\ doc.tasks[i].status # "done"
           /\ file' = Some([doc EXCEPT
                              !.tasks[i].status = "done",
                              !.activity = Append(@, Activity("moved", "data", taskId,
                                                              doc.tasks[i].status, "done"))])
    /\ fileChanged' = TRUE
    /\ extWrites' = extWrites + 1
    /\ last' = NoObs
    /\ lastFlush' = NoFlush
    /\ hist' = NoGets
    /\ UNCHANGED <<now, tasksCache, nextId, watching, lastTasksState, hubVars, cache, sideVars>>

\* Time passes: the clock of the model advances by d ms, the lifetime of some
\* cache.  The flush timer runs DEBOUNCE_MS, less than that, so a pending
\* flush fires first.  A step of d ms is taken while the clock is below
\* MaxTicks steps of that length.
Tick(d) ==
    /\ ~broadcastTimeout
    /\ DEBOUNCE_MS < d
    /\ now < MaxTicks * d
    /\ now' = now + d
    /\ last' = NoObs
    /\ lastFlush' = NoFlush
    /\ hist' = NoGets
    /\ UNCHANGED <<storeVars, sideVars, hubVars, cache>>

\* GET /api/messages/counts
RestGetMessageCounts ==
    LET ld == loadMessages(messagesCache, messagesFile, now) IN
    /\ messagesCache' = ld.cache
    /\ last' = [NoObs EXCEPT !.op = "getMessageCounts", !.code = 200,
                             !.updates = getMessageCounts(ld.doc)]
    /\ lastFlush' = NoFlush
    /\ hist' = NoGets
    /\ UNCHANGED <<now, storeVars, archive, messagesFile, gatewayStatusPromise, loop,
                   hubVars, cache>>

\* POST /api/messages/:id/create-task.  The messages of the model are
\* requests (type 'request', the default of createMessage).  last.link tells
\* whether the document held the message (found), how many tasks tasks.json
\* holds that it did not hold before (tasksNew), whether tasks.json holds a
\* task with the new id, the subject as title, the recipient as assignee and
\* the status assigned (built), whether messages.json holds the message with
\* the new id as taskId (linked), and whether messages.json is as it was.
RestCreateTaskFromMessage(messageId, outcome, written) ==
    LET ld == loadMessages(messagesCache, messagesFile, now)
        i == FindIndex(ld.doc.messages, messageId)
    IN  IF i = 0
        THEN /\ outcome = "ok" /\ written = "ok"
             /\ messagesCache' = ld.cache
             /\ last' = [NoObs EXCEPT
                           !.op = "createTaskFromMessage", !.taskId = messageId,
                           !.code = 404]
             /\ lastFlush' = NoFlush
             /\ hist' = NoGets
             /\ UNCHANGED <<now, storeVars, archive, messagesFile, gatewayStatusPromise,
                            loop, hubVars, cache>>
        ELSE
        LET msg == ld.doc.messages[i]
            ct == createTaskTitled(tasksCache, file, now, nextId, msg.subject, msg.to,
                                   "medium", outcome)
            um == updateMessage(ld.cache, messagesFile, now, messageId,
                                [taskId |-> TaskRef(nextId)], written)
            bt == broadcastTasks(Hub, ct.cache, ct.file, now)
            bm == broadcastMessages(bt.hub, um.cache, um.file, now)
            before == PersistedDoc(file).tasks
            after == PersistedDoc(ct.file).tasks
            stored == IF IsNull(um.file) THEN getDefaultMessages ELSE Val(um.file)
            j == FindIndex(stored.messages, messageId)
        IN  /\ WindowRoom(2)
            /\ Room(2)
            /\ nextId <= MaxIds + MaxMessages + 1
            /\ nextId' = nextId + 1
            /\ file' = ct.file
            /\ tasksCache' = bt.cache
            /\ fileChanged' = (fileChanged \/ ct.saved = "ok")
            /\ messagesFile' = um.file
            /\ messagesCache' = bm.cache
            /\ SetHub(bm.hub)
            /\ last' = [NoObs EXCEPT
                          !.op = "createTaskFromMessage", !.taskId = messageId,
                          !.code = 201, !.bcast = TRUE, !.saved = ct.saved,
                          !.link = [found |-> TRUE,
                                    tasksNew |->
                                      Cardinality({k \in 1..Len(after) :
                                                     FindIndex(before, after[k].id) = 0}),
                                    built |->
                                      \E k \in 1..Len(after) :
                                          /\ after[k].id = nextId
                                          /\ "title" \in DOMAIN after[k]
                                          /\ after[k].title = msg.subject
                                          /\ after[k].assignee = msg.to
                                          /\ after[k].status = "assigned",
                                    linked |-> /\ j # 0
                                               /\ stored.messages[j].taskId = TaskRef(nextId),
                                    messagesSame |-> um.file = messagesFile]]
            /\ lastFlush' = NoFlush
            /\ hist' = NoGets
            /\ UNCHANGED <<now, watching, lastTasksState, extWrites, archive,
                           gatewayStatusPromise, loop, clients, readyState, conn, cache>>

-----------------------------------------------------------------------------
(* The update loop, the other watchers, the weather endpoint, connections *)

\* updateLoop(): gather a snapshot and broadcast it
UpdateLoop(env) ==
    /\ WindowRoom(1)
    /\ LET g == gatherBridgeData(cache, hist, tasksCache, file, now, env)
       IN  /\ cache' = g.cache
           /\ hist' = g.hist
           /\ tasksCache' = g.tasksCache
           /\ SetHub(broadcast(Hub, [type |-> "update", data |-> g.data]))
    /\ last' = [NoObs EXCEPT !.op = "updateLoop", !.bcast = TRUE, !.updates = env]
    /\ lastFlush' = NoFlush
    /\ UNCHANGED <<now, file, nextId, watching, fileChanged, lastTasksState, extWrites, sideVars,
                   clients, readyState, conn>>

\* watchFile(QUARK_PORTFOLIO, ...) callback
QuarkWatcher(env) ==
    /\ WindowRoom(1)
    /\ LET c0 == [cache EXCEPT !["quarkData"].data = None, !["bridgeData"].data = None]
           h0 == [hist EXCEPT !.ran = @ \ {"quarkData", "bridgeData"}]
           g == gatherBridgeData(c0, h0, tasksCache, file, now, env)
       IN  /\ cache' = g.cache
           /\ hist' = g.hist
           /\ tasksCache' = g.tasksCache
           /\ SetHub(broadcast(Hub, [type |-> "trade_update", data |-> g.data]))
    /\ last' = [NoObs EXCEPT !.op = "quarkWatcher", !.bcast = TRUE, !.updates = env]
    /\ lastFlush' = NoFlush
    /\ UNCHANGED <<now, file, nextId, watching, fileChanged, lastTasksState, extWrites, sideVars,
                   clients, readyState, conn>>

\* watchFile(MESSAGES_FILE, ...) callback: broadcastMessages(), taken with
\* no message in messages.json
MessagesWatcher ==
    /\ WindowRoom(1)
    /\ SetHub(broadcast(Hub, [type |-> "messages_update", data |-> [messages |-> <<>>]]))
    /\ last' = [NoObs EXCEPT !.op = "messagesWatcher", !.bcast = TRUE]
    /\ lastFlush' = NoFlush
    /\ hist' = NoGets
    /\ UNCHANGED <<now, storeVars, sideVars, clients, readyState, conn, cache>>

\* GET /api/weather
RestGetWeather(env) ==
    /\ LET r == getCached(cache, "weather", now, FetchedWeather(env, now))
       IN  /\ cache' = IF ~IsNull(r.ret)
                       THEN [r.cache EXCEPT !["weather"].ttl = WEATHER_TTL]
                       ELSE r.cache
           /\ hist' = [gets |-> Marked(<<GetObs(cache, hist.ran, "weather", now, r, env)>>,
                                        hist.invalid, cache, now),
                       ran |-> Ran(hist.ran, r, "weather"),
                       invalid |-> hist.invalid \ {"weather"}]
           /\ last' = [NoObs EXCEPT !.op = "getWeather",
                                    !.ret = IF IsNull(r.ret) THEN "null" ELSE "entity",
                                    !.code = IF IsNull(r.ret) THEN 503 ELSE 200]
    /\ lastFlush' = NoFlush
    /\ UNCHANGED <<now, storeVars, sideVars, hubVars>>

\* GET /api/system: getSystemStats(), then getGatewayUptime()
RestGetSystem(env) ==
    /\ LET stats == getSystemStats(cache, now, env)
           g == getGatewayUptime(stats.cache, gatewayStatusPromise, now)
       IN  /\ cache' = stats.cache
           /\ gatewayStatusPromise' = g.pending
           /\ hist' = [gets |-> Marked(<<GetObs(cache, hist.ran, "systemStats", now, stats,
                                               env)>>, hist.invalid, cache, now),
                       ran |-> Ran(hist.ran, stats, "systemStats"),
                       invalid |-> hist.invalid \ {"systemStats"}]
           /\ last' = [NoObs EXCEPT
                         !.op = "getSystem", !.code = 200,
                         !.ret = IF IsNull(g.ret) THEN "null" ELSE "entity",
                         !.gw = [known |-> g.ret = cache["gatewayStatus"].data,
                                 fresh |-> g.fresh, started |-> g.started,
                                 failed |-> FALSE,
                                 kept |-> stats.cache["gatewayStatus"]
                                            = cache["gatewayStatus"]]]
    /\ lastFlush' = NoFlush
    /\ UNCHANGED <<now, storeVars, archive, messageVars, loop, hubVars>>

\* The gateway status command ends and exec calls back
GatewayStatusDone(out) ==
    /\ gatewayStatusPromise
    /\ gatewayStatusPromise' = FALSE
    /\ cache' = gatewayStatusCallback(cache, out, now)
    /\ last' = [NoObs EXCEPT
                  !.op = "gatewayStatus", !.updates = out,
                  !.gw = [known |-> TRUE, fresh |-> FALSE, started |-> FALSE,
                          failed |-> GatewayFails(out),
                          kept |-> cache'["gatewayStatus"] = cache["gatewayStatus"]]]
    /\ lastFlush' = NoFlush
    /\ hist' = NoGets
    /\ UNCHANGED <<now, storeVars, archive, messageVars, loop, hubVars>>

\* invalidateCache(keys), called between two requests
InvalidateCache(keys) ==
    /\ cache' = invalidateCache(cache, keys)
    /\ hist' = [gets |-> <<>>, ran |-> hist.ran \ keys, invalid |-> hist.invalid \cup keys]
    /\ last' = [NoObs EXCEPT !.op = "invalidateCache", !.updates = keys]
    /\ lastFlush' = NoFlush
    /\ UNCHANGED <<now, storeVars, sideVars, hubVars>>

\* The handler of a connection: not run ("none"), suspended at its await of
\* gatherBridgeData() ("gathering"; "body" while the gateway has answered
\* the sessions request and not finished the body), or run to its end ("ready": the
\* listeners for message, close, error and pong are attached); ws.isAlive;
\* how many times the init frames were issued to the socket; and whether the
\* peer has left the last keepalive ping sent to it without a pong
NoConn == [phase |-> "none", isAlive |-> "undefined", inits |-> 0, unanswered |-> FALSE]

\* ws.send(frames) on socket c: the frames go out when the socket is OPEN; on
\* a socket that has left the OPEN state the ws library drops them
Delivered(c, frames) == IF readyState[c] = "OPEN" THEN frames ELSE <<>>

\* The direct frames of a handler overtake a broadcast payload that waits in
\* the queue for the flush timer
Overtaking(w, c, frames) ==
    IF broadcastTimeout /\ Delivered(c, frames) # <<>>
    THEN [w EXCEPT !.direct = @ \cup {c}]
    ELSE w

\* The frames the connection handler sends, in the order of its send calls
InitFramesTasksFirst == <<"tasks", "init", "messages">>

InitFrames == <<"init", "tasks", "messages">>

\* wss.on('connection', ...), up to its await: the socket is registered and
\* gatherBridgeData() called, which runs the fetch functions of its
\* Promise.all list and waits for the sessions request
WsConnection(c, env) ==
    /\ c \notin clients
    /\ readyState[c] = "CLOSED"
    /\ conn[c].phase = "none"
    /\ clients' = clients \cup {c}
    /\ readyState' = [readyState EXCEPT ![c] = "OPEN"]
    /\ conn' = [conn EXCEPT ![c].phase = "gathering"]
    /\ LET g == gatherBridgeData(cache, hist, tasksCache, file, now, env)
       IN  /\ cache' = g.cache
           /\ hist' = g.hist
    /\ last' = [NoObs EXCEPT !.op = "connection", !.to = c]
    /\ lastFlush' = NoFlush
    /\ UNCHANGED <<now, storeVars, sideVars, broadcastQueue, broadcastTimeout, window>>

\* wss.on('connection', ...), from its await on: gatherBridgeData() counts
\* the tasks in review (loadTasks) and resolves, the init, tasks (loadTasks)
\* and messages frames are sent to the socket alone, the listeners attached
\* and ws.isAlive set
ConnectionResumes(c) ==
    /\ tasksCache' = LoadTasks(LoadTasks(tasksCache, file, now).cache, file, now).cache
    /\ conn' = [conn EXCEPT ![c].phase = "ready", ![c].isAlive = "true",
                            ![c].inits = @ + 1]
    /\ window' = Overtaking(window, c, InitFrames)
    /\ last' = [NoObs EXCEPT !.op = "connectionReady", !.to = c,
                             !.issued = InitFrames,
                             !.sent = Delivered(c, InitFrames)]
    /\ lastFlush' = NoFlush
    /\ hist' = NoGets
    /\ UNCHANGED <<now, file, nextId, watching, fileChanged, lastTasksState, extWrites, sideVars,
                   clients, readyState, broadcastQueue, broadcastTimeout, cache>>

\* The sessions request of the handler settles (an answer with its body, an
\* answer that is not ok, a refusal, or the abort after 3 s) and the handler
\* resumes
WsConnectionReady(c) ==
    /\ conn[c].phase = "gathering"
    /\ ConnectionResumes(c)

\* The gateway answers the sessions request of the handler with status 200
\* and does not finish the body: fetch() resolves, clearTimeout(timeout)
\* takes the abort away, and the handler waits at `await response.json()`
SessionsStall(c) ==
    /\ conn[c].phase = "gathering"
    /\ conn' = [conn EXCEPT ![c].phase = "body"]
    /\ last' = NoObs
    /\ lastFlush' = NoFlush
    /\ hist' = NoGets
    /\ UNCHANGED <<now, storeVars, sideVars, clients, readyState, broadcastQueue,
                   broadcastTimeout, window, cache>>

\* The body ends after all (it is completed, or the read fails, which the
\* catch block of getSessions turns into []), and the handler resumes
WsConnectionAfterBody(c) ==
    /\ conn[c].phase = "body"
    /\ ConnectionResumes(c)

\* A call of updateLoop is due: the call at start-up or a timer of
\* setTimeout(updateLoop, UPDATE_INTERVAL).  The call uses it up and runs
\* to its await with the gathered sources and the sessions request out.
updateLoopEnters(l, data, gateway) ==
    [pc |-> "gathering", data |-> Some(data), gateway |-> gateway,
     timers |-> l.timers - 1, flights |-> l.flights + 1]

\* The end of updateLoop, after the try block or the catch block:
\* setTimeout(updateLoop, UPDATE_INTERVAL)
updateLoopLeaves(l) ==
    [pc |-> "timer", data |-> None, gateway |-> "none",
     timers |-> l.timers + 1, flights |-> l.flights - 1]

\* updateLoop(), up to the await of its gatherBridgeData(): the fetch
\* functions of the Promise.all list have run, the sessions request is out
UpdateLoopStart(env) ==
    /\ loop.timers > 0
    /\ LET g == gatherBridgeData(cache, hist, tasksCache, file, now, env)
       IN  /\ cache' = g.cache
           /\ hist' = g.hist
           /\ loop' = updateLoopEnters(loop, g.data, env.sessions.kind)
    /\ last' = [NoObs EXCEPT !.op = "updateLoopStart", !.updates = env]
    /\ lastFlush' = NoFlush
    /\ UNCHANGED <<now, storeVars, archive, messageVars, gatewayStatusPromise, hubVars>>

\* updateLoop() from its await on: gatherBridgeData() counts the tasks in
\* review and resolves, the snapshot is broadcast and the next call of
\* updateLoop scheduled with setTimeout.  failed tells that the read of the
\* body failed, so that getSessions returned [].
LoopResumes(failed) ==
    LET ld == LoadTasks(tasksCache, file, now)
        gathered == Val(loop.data)
        sessions == IF failed THEN getSessions([kind |-> "down"]) ELSE gathered.sessions
        data == [gathered EXCEPT
                   !.sessions = sessions,
                   !.crew = analyzeCrewActivity(sessions),
                   !.review = Cardinality({i \in 1..Len(ld.doc.tasks) :
                                             ld.doc.tasks[i].status = "review"})]
    IN  /\ WindowRoom(1)
        /\ tasksCache' = ld.cache
        /\ SetHub(broadcast(Hub, [type |-> "update", data |-> data]))
        /\ loop' = updateLoopLeaves(loop)
        /\ last' = [NoObs EXCEPT !.op = "updateLoop", !.bcast = TRUE]
        /\ lastFlush' = NoFlush
        /\ hist' = NoGets
        /\ UNCHANGED <<now, file, nextId, watching, fileChanged, lastTasksState,
                       extWrites, archive, messageVars, gatewayStatusPromise, clients,
                       readyState, conn, cache>>

\* The sessions request of updateLoop settles and updateLoop resumes
UpdateLoopResume ==
    /\ loop.pc = "gathering"
    /\ LoopResumes(FALSE)

\* gatherBridgeData() rejects after its await, as when the tasks of the
\* loaded document are no array and the count of the tasks in review throws:
\* the catch block logs the error, nothing is broadcast, and the next call
\* is scheduled
UpdateLoopThrows ==
    /\ loop.pc = "gathering"
    /\ loop' = updateLoopLeaves(loop)
    /\ last' = [NoObs EXCEPT !.op = "updateLoopError"]
    /\ lastFlush' = NoFlush
    /\ hist' = NoGets
    /\ UNCHANGED <<now, storeVars, archive, messageVars, gatewayStatusPromise, hubVars,
                   cache>>

\* The gateway answers the sessions request of updateLoop with status 200 and
\* does not finish the body
UpdateLoopStall ==
    /\ loop.pc = "gathering"
    /\ loop.gateway = "ok"
    /\ loop' = [loop EXCEPT !.pc = "body"]
    /\ last' = NoObs
    /\ lastFlush' = NoFlush
    /\ hist' = NoGets
    /\ UNCHANGED <<now, storeVars, archive, messageVars, gatewayStatusPromise, hubVars,
                   cache>>

\* The body ends after all, completed or with a failed read
UpdateLoopAfterBody(failed) ==
    /\ loop.pc = "body"
    /\ LoopResumes(failed)

\* The peer starts the closing handshake: the socket is no longer OPEN, its
\* 'close' event has not been emitted yet
WsClosing(c) ==
    /\ readyState[c] = "OPEN"
    /\ readyState' = [readyState EXCEPT ![c] = "CLOSING"]
    /\ last' = NoObs
    /\ lastFlush' = NoFlush
    /\ hist' = NoGets
    /\ UNCHANGED <<now, storeVars, sideVars, clients, conn, broadcastQueue, broadcastTimeout,
                   window, cache>>

\* The socket emits 'close'.  ws.on('close', ...) unregisters it, when the
\* connection handler has attached that listener; an event emitted while the
\* handler waits at its await finds no listener, and the socket stays in
\* clients.
WsClose(c) ==
    /\ readyState[c] # "CLOSED"
    /\ readyState' = [readyState EXCEPT ![c] = "CLOSED"]
    /\ IF conn[c].phase = "ready"
       THEN /\ clients' = clients \ {c}
            /\ conn' = [conn EXCEPT ![c] = NoConn]
       ELSE UNCHANGED <<clients, conn>>
    /\ last' = NoObs
    /\ lastFlush' = NoFlush
    /\ hist' = NoGets
    /\ UNCHANGED <<now, storeVars, sideVars, broadcastQueue, broadcastTimeout, window, cache>>

-----------------------------------------------------------------------------
(* Inbound frames and the keepalive *)

\* get_tasks: the document loadTasks() returns goes to the sender alone
WsGetTasks(c) ==
    /\ Sender(c)
    /\ tasksCache' = LoadTasks(tasksCache, file, now).cache
    /\ window' = Overtaking(window, c, <<"tasks">>)
    /\ last' = [NoObs EXCEPT !.op = "getTasksFrame", !.to = c,
                             !.issued = <<"tasks">>,
                             !.sent = Delivered(c, <<"tasks">>)]
    /\ lastFlush' = NoFlush
    /\ hist' = NoGets
    /\ UNCHANGED <<now, file, nextId, watching, fileChanged, lastTasksState, extWrites, sideVars,
                   clients, readyState, conn, broadcastQueue, broadcastTimeout, cache>>

\* Frames the message listener has no work for: text that is not JSON, the
\* JSON text null, a type no case names, and a type whose case finds its
\* fields missing
BadFrames == {"not json", "null", "{type:'bogus'}", "{type:'update_task'}"}

\* What the listener does with a frame: JSON.parse throws ("not json"), or
\* msg.type throws (msg is null), or the switch runs its default case or a
\* case whose condition fails; the catch block and the default case only log
Handling(frame) ==
    CASE frame = "not json" -> "throws"
      [] frame = "null" -> "throws"
      [] frame = "{type:'bogus'}" -> "default"
      [] frame = "{type:'update_task'}" -> "skipped"

\* A catch block that gives up the connection of the frame
AfterBadFrameDrop(c, handling) ==
    [clients |-> IF handling = "throws" THEN clients \ {c} ELSE clients,
     readyState |-> IF handling = "throws"
                    THEN [readyState EXCEPT ![c] = "CLOSING"] ELSE readyState]

\* The registry and the socket after the listener is done with such a frame
AfterBadFrame(c, handling) ==
    [clients |-> clients, readyState |-> readyState]

\* ws.on('message', ...) with such a frame
WsBadFrame(c, frame) ==
    /\ Sender(c)
    /\ LET a == AfterBadFrame(c, Handling(frame))
       IN  /\ clients' = a.clients
           /\ readyState' = a.readyState
    /\ last' = [NoObs EXCEPT !.op = "badFrame", !.to = c]
    /\ lastFlush' = NoFlush
    /\ hist' = NoGets
    /\ UNCHANGED <<now, storeVars, sideVars, conn, broadcastQueue, broadcastTimeout, window, cache>>

\* The sockets of wss.clients: those that have not emitted 'close'
Sockets == {c \in Conns : readyState[c] # "CLOSED"}

\* The callback of pingInterval.  The interval (30 s) is longer than any
\* wait of a connection handler at its await (the sessions request is
\* aborted after 3 s), so at most one tick falls into such a wait.
PingTick ==
    /\ \A c \in Conns : conn[c].phase = "gathering" => conn[c].isAlive = "undefined"
    /\ Sockets # {}
    /\ LET dead == {c \in Sockets : conn[c].isAlive = "false"}
       IN  /\ clients' = clients \ dead
           /\ readyState' = [c \in Conns |-> IF c \in dead THEN "CLOSING" ELSE readyState[c]]
           /\ conn' = [c \in Conns |->
                         IF c \in Sockets \ dead
                         THEN [conn[c] EXCEPT !.isAlive = "false", !.unanswered = TRUE]
                         ELSE conn[c]]
           /\ last' = [NoObs EXCEPT !.op = "pingTick",
                                    !.terminated = dead,
                                    !.silent = {c \in Sockets : conn[c].unanswered}]
    /\ lastFlush' = NoFlush
    /\ hist' = NoGets
    /\ UNCHANGED <<now, storeVars, sideVars, broadcastQueue, broadcastTimeout, window, cache>>

\* The peer answers the keepalive ping: ws.on('pong', ...) sets ws.isAlive,
\* when the connection handler has attached that listener
WsPong(c) ==
    /\ readyState[c] = "OPEN"
    /\ conn[c].unanswered
    /\ conn' = [conn EXCEPT ![c].unanswered = FALSE,
                            ![c].isAlive = IF conn[c].phase = "ready" THEN "true" ELSE @]
    /\ last' = [NoObs EXCEPT !.op = "pong", !.to = c]
    /\ lastFlush' = NoFlush
    /\ hist' = NoGets
    /\ UNCHANGED <<now, storeVars, sideVars, clients, readyState, broadcastQueue, broadcastTimeout,
                   window, cache>>

-----------------------------------------------------------------------------
(* The task store under the REST handlers, the tasks watcher and the
   command-line companion *)

InitCore ==
    /\ now = 0
    /\ tasksCache = NoCache
    /\ fileChanged = FALSE
    /\ lastTasksState = None
    /\ clients = {}
    /\ readyState = [c \in Conns |-> "CLOSED"]
    /\ conn = [c \in Conns |-> NoConn]
    /\ broadcastQueue = None
    /\ broadcastTimeout = FALSE
    /\ cache = InitCache
    /\ last = NoObs
    /\ extWrites = 0
    /\ window = NoWindow
    /\ lastFlush = NoFlush
    /\ hist = NoHist

\* No archive file and no messages.json yet, no gateway status command running
InitArchiveFile == archive = None
InitMessages == messagesFile = None /\ messagesCache = NoCache
InitGateway == gatewayStatusPromise = FALSE
InitLoop == loop = [pc |-> "timer", data |-> None, gateway |-> "none",
                    timers |-> 1, flights |-> 0]

InitCommon == InitCore /\ InitArchiveFile /\ InitMessages /\ InitGateway /\ InitLoop

Init ==
    /\ InitCommon
    /\ file \in {None, Some(getDefaultTasks)}
    /\ watching = ~IsNull(file)
    /\ nextId = 1

Next ==
    \/ \E a \in Assignees, o \in SafeWriteOutcomes : RestCreateTask(a, o)
    \/ \E id \in TaskIds, u \in UpdateInputs, o \in SafeWriteOutcomes : RestPatchTask(id, u, o)
    \/ \E id \in TaskIds, o \in SafeWriteOutcomes : RestDeleteTask(id, o)
    \/ \E id \in TaskIds, o \in SafeWriteOutcomes : RestAddComment(id, o)
    \/ RestGetTasks
    \/ \E o \in SafeWriteOutcomes : TasksFileWatcher(o)
    \/ \E id \in TaskIds : ExternalWrite(id)
    \/ FlushTimer
    \/ Tick(TASKS_CACHE_TTL)

Spec == Init /\ [][Next]_vars

\* The task store next to the command-line companion, with a safe writer that
\* never refuses
NextShared ==
    \/ \E a \in Assignees : RestCreateTask(a, "ok")
    \/ \E id \in TaskIds, u \in UpdateInputs : RestPatchTask(id, u, "ok")
    \/ \E id \in TaskIds : RestDeleteTask(id, "ok")
    \/ \E id \in TaskIds : RestAddComment(id, "ok")
    \/ RestGetTasks
    \/ TasksFileWatcher("ok")
    \/ \E id \in TaskIds : ExternalWrite(id)
    \/ FlushTimer
    \/ Tick(TASKS_CACHE_TTL)

SpecShared == Init /\ [][NextShared]_vars

-----------------------------------------------------------------------------
(* The broadcast hub: connections and every source of broadcasts, over a
   tasks document that holds one task *)

AllOk ==
    [git |-> "ok", system |-> "ok", sessions |-> [kind |-> "ok", body |-> JArray(<<>>)],
     quark |-> Portfolio(100000, <<>>), workLoop |-> WorkLoopIdle]

\* The requests of this specification move the task between two columns;
\* the safe writer accepts every write
StatusMoves == {[status |-> "done"], [status |-> "inbox"]}

InitHub ==
    /\ InitCommon
    /\ file = createTask(NoCache, None, 0, 1, NoAgent, "ok").file
    /\ watching = TRUE
    /\ nextId = 2

NextHub ==
    \/ \E c \in Conns : WsConnection(c, AllOk)
    \/ \E c \in Conns : WsConnectionReady(c)
    \/ \E c \in Conns : WsClosing(c)
    \/ \E c \in Conns : WsClose(c)
    \/ \E u \in StatusMoves : RestPatchTask(1, u, "ok")
    \/ \E c \in Conns, u \in StatusMoves : WsUpdateTask(c, 1, u, "ok")
    \/ \E c \in Conns : WsAddTaskLog(c, 1, "ok")
    \/ UpdateLoop(AllOk)
    \/ QuarkWatcher(AllOk)
    \/ MessagesWatcher
    \/ FlushTimer
    \/ Tick(TASKS_CACHE_TTL)

SpecHub == InitHub /\ [][NextHub]_vars

\* The tasks file watcher next to the command-line companion, with clients
\* of the real-time channel
NextWatch ==
    \/ \E c \in Conns : WsConnection(c, AllOk)
    \/ \E c \in Conns : WsConnectionReady(c)
    \/ \E c \in Conns : WsClose(c)
    \/ \E u \in StatusMoves : RestPatchTask(1, u, "ok")
    \/ \E o \in SafeWriteOutcomes : TasksFileWatcher(o)
    \/ ExternalWrite(1)
    \/ FlushTimer
    \/ Tick(TASKS_CACHE_TTL)

SpecWatch == InitHub /\ [][NextWatch]_vars

-----------------------------------------------------------------------------
(* The cache layer: the weather endpoint and the snapshot gatherers, with
   sources that may fail, over the lifetimes of the entries *)

InitCacheLayer ==
    /\ InitCommon
    /\ file = Some(getDefaultTasks)
    /\ watching = TRUE
    /\ nextId = 1

NextCacheLayer ==
    \/ \E e \in {"ok", "fail"} : RestGetWeather(e)
    \/ \E e \in Envs : UpdateLoop(e)
    \/ \E e \in Envs : QuarkWatcher(e)
    \/ FlushTimer
    \/ \E d \in {SYSTEM_STATS_TTL, DEFAULT_TTL, WEATHER_TTL} : Tick(d)

SpecCache == InitCacheLayer /\ [][NextCacheLayer]_vars

\* The cache layer with invalidations: of keys that getCached has filled, of
\* a key the cache object starts with, and of a key it does not hold
InvalidateKeys == {{"weather"}, {"systemStats"}, {"gitStatus.workspace", "weather"},
                   {"no such key"}}

NextInvalidate ==
    \/ \E e \in {"ok", "fail"} : RestGetWeather(e)
    \/ \E e \in {e \in Envs : e.git = e.system} : UpdateLoop(e)
    \/ \E keys \in InvalidateKeys : InvalidateCache(keys)
    \/ FlushTimer
    \/ \E d \in {SYSTEM_STATS_TTL, DEFAULT_TTL} : Tick(d)

SpecInvalidate == InitCacheLayer /\ [][NextInvalidate]_vars

\* The system endpoint and the gateway status command
NextGateway ==
    \/ \E e \in {"ok", "fail"} : RestGetSystem(e)
    \/ \E out \in GatewayOutputs : GatewayStatusDone(out)
    \/ \E d \in {TASKS_CACHE_TTL, InitCache["gatewayStatus"].ttl} : Tick(d)

SpecGateway == InitCacheLayer /\ [][NextGateway]_vars

-----------------------------------------------------------------------------
(* Pruning on save: tasks.json holds one task and lists at, just below and
   above the limits (another process may have written more), each record
   numbered in its order *)

StoredActivity(n) ==
    [k \in 1..n |-> [action |-> "logged", agent |-> "seven", taskId |-> 1,
                     from |-> Absent, to |-> Absent, id |-> k]]

StoredLogs(n) == [k \in 1..n |-> [type |-> "update", agent |-> "seven", id |-> k]]

InitPrune ==
    /\ InitCommon
    /\ \E a \in {MAX_ACTIVITY_ENTRIES - 1, MAX_ACTIVITY_ENTRIES, MAX_ACTIVITY_ENTRIES + Excess},
          l \in {MAX_LOGS_PER_TASK - 1, MAX_LOGS_PER_TASK, MAX_LOGS_PER_TASK + Excess} :
          file = Some([tasks |-> <<[id |-> 1, status |-> "inbox", assignee |-> NoAgent,
                                    priority |-> "medium", comments |-> <<>>,
                                    logs |-> StoredLogs(l)]>>,
                       activity |-> StoredActivity(a)])
    /\ watching = TRUE
    /\ nextId = 2

NextPrune ==
    \/ WsConnection(1, AllOk)
    \/ WsConnectionReady(1)
    \/ \E id \in TaskIds, o \in SafeWriteOutcomes : RestAddComment(id, o)
    \/ \E id \in TaskIds, o \in SafeWriteOutcomes : WsAddTaskLog(1, id, o)
    \/ FlushTimer
    \/ Tick(TASKS_CACHE_TTL)

SpecPrune == InitPrune /\ [][NextPrune]_vars

-----------------------------------------------------------------------------
(* The five store operations that write the activity log, under the handlers
   that call them: the REST handlers and, for addTaskLog, the add_task_log
   frame of a connected client *)

InitActivity ==
    /\ InitCommon
    /\ file \in {None, Some(getDefaultTasks)}
    /\ watching = ~IsNull(file)
    /\ nextId = 1

NextActivity ==
    \/ WsConnection(1, AllOk)
    \/ WsConnectionReady(1)
    \/ \E a \in Assignees, o \in SafeWriteOutcomes : RestCreateTask(a, o)
    \/ \E id \in TaskIds, u \in StatusMoves, o \in SafeWriteOutcomes : RestPatchTask(id, u, o)
    \/ \E id \in TaskIds, o \in SafeWriteOutcomes : RestDeleteTask(id, o)
    \/ \E id \in TaskIds, o \in SafeWriteOutcomes : RestAddComment(id, o)
    \/ \E id \in TaskIds, o \in SafeWriteOutcomes : WsAddTaskLog(1, id, o)
    \/ FlushTimer
    \/ Tick(TASKS_CACHE_TTL)

SpecActivity == InitActivity /\ [][NextActivity]_vars

-----------------------------------------------------------------------------
(* Connections of the real-time channel: their opening, their inbound frames,
   the keepalive and the flush of the broadcast queue *)

NextConn ==
    \/ \E c \in Conns : WsConnection(c, AllOk)
    \/ \E c \in Conns : WsConnectionReady(c)
    \/ \E c \in Conns : WsClosing(c)
    \/ \E c \in Conns : WsClose(c)
    \/ \E c \in Conns : WsGetTasks(c)
    \/ \E c \in Conns, frame \in BadFrames : WsBadFrame(c, frame)
    \/ \E c \in Conns, u \in StatusMoves : WsUpdateTask(c, 1, u, "ok")
    \/ PingTick
    \/ \E c \in Conns : WsPong(c)
    \/ FlushTimer
    \/ Tick(TASKS_CACHE_TTL)

SpecConn == InitHub /\ [][NextConn]_vars

\* The life of the connections alone.  A connection handler resumes when its
\* sessions request settles, which it does within 3 s here, and the
\* keepalive interval keeps firing.
NextClose ==
    \/ \E c \in Conns : WsConnection(c, AllOk)
    \/ \E c \in Conns : WsConnectionReady(c)
    \/ \E c \in Conns : WsClosing(c)
    \/ \E c \in Conns : WsClose(c)
    \/ PingTick
    \/ \E c \in Conns : WsPong(c)

SpecClose ==
    /\ InitHub
    /\ [][NextClose]_vars
    /\ \A c \in Conns : WF_vars(WsConnectionReady(c))
    /\ WF_vars(PingTick)

-----------------------------------------------------------------------------
(* The snapshot under failing collaborators: the gateway is down, answers
   with another status or with JSON that is no array; the portfolio file and
   the work-loop state file are missing or cannot be parsed; the git and
   system commands fail; tasks.json cannot be read *)

OneSession == JArray(<<[label |-> "Dashboard build", status |-> "running"]>>)

Gateways == {[kind |-> "ok", body |-> OneSession], [kind |-> "ok", body |-> JObject],
             [kind |-> "down"], [kind |-> "status"]}

Trade(result, profit) == [result |-> result, profit |-> profit]

Portfolios == {Portfolio(100000, <<Trade("win", 10000)>>),
               [kind |-> "missing"], [kind |-> "malformed"]}

WorkLoopStates == {[kind |-> "ok", data |-> [status |-> "running", activeWorkers |-> {"geordi"}]],
                   [kind |-> "unreadable"]}

GatherEnvs == [git : {"ok", "fail"}, system : {"ok", "fail"}, sessions : Gateways,
               quark : Portfolios, workLoop : WorkLoopStates]

InReview ==
    [tasks |-> <<[id |-> 1, status |-> "review", assignee |-> NoAgent,
                  priority |-> "medium", comments |-> <<>>, logs |-> <<>>]>>,
     activity |-> <<>>]

InitGather ==
    /\ InitCommon
    /\ file \in {None, Some(InReview)}
    /\ watching = ~IsNull(file)
    /\ nextId = 2

NextGather ==
    \/ \E e \in GatherEnvs : UpdateLoop(e)
    \/ \E e \in GatherEnvs : QuarkWatcher(e)
    \/ FlushTimer
    \/ Tick(DEFAULT_TTL)

SpecGather == InitGather /\ [][NextGather]_vars

-----------------------------------------------------------------------------
(* The crew analysis: the gateway answers with up to MaxSessions sessions,
   running ones with a label and idle ones without *)

SessionInputs ==
    {[label |-> l, status |-> "running"] : l \in Labels} \cup {[status |-> "idle"]}

SessionLists == UNION {[1..n -> SessionInputs] : n \in 0..MaxSessions}

CrewEnvs == {[AllOk EXCEPT !.sessions = [kind |-> "ok", body |-> JArray(items)]] :
                items \in SessionLists}

NextCrew ==
    \/ \E e \in CrewEnvs : UpdateLoop(e)
    \/ FlushTimer

SpecCrew == InitCacheLayer /\ [][NextCrew]_vars

-----------------------------------------------------------------------------
(* The portfolio: the file holds a starting balance and a history of up to
   MaxTrades trades, won or lost, with a result of null or none, with a
   profit of whole units, of thousandths, or none *)

TradeInputs ==
    {Trade("win", 10000), Trade("loss", -5000), Trade("null", 4),
     [result |-> "win"], [profit |-> 4]}

Histories == UNION {[1..n -> TradeInputs] : n \in 0..MaxTrades}

StartingBalances == {100000, 50004}

QuarkEnvs == {[AllOk EXCEPT !.quark = Portfolio(b, h)] :
                 b \in StartingBalances, h \in Histories}

NextQuark ==
    \/ \E e \in QuarkEnvs : QuarkWatcher(e)
    \/ FlushTimer

SpecQuark == InitCacheLayer /\ [][NextQuark]_vars

-----------------------------------------------------------------------------
(* The archive of tasks done long ago: tasks.json holds up to two tasks, done
   or not, last updated eight days before the server started, exactly seven
   days before, at no date that can be parsed, or never; the archive file of
   the day is missing, holds a task archived before, or cannot be used *)

Stamps == Timestamps \cup {"n/a"}

StoredTask(id, status) ==
    [id |-> id, status |-> status, assignee |-> NoAgent, priority |-> "medium",
     comments |-> <<>>, logs |-> <<>>]

StoredTasks(id) ==
    {StoredTask(id, st) : st \in {"done", "inbox"}}
    \cup {StoredTask(id, st) @@ [updatedAt |-> u] :
             st \in {"done", "inbox"}, u \in Stamps}

ArchiveFiles == {None, Some(ArchiveOf(<<StoredTask(3, "done")>>)),
                 Some(ArchiveObject), Some(ArchiveInvalid)}

InitArchive ==
    /\ InitCore /\ InitMessages /\ InitGateway /\ InitLoop
    /\ archive \in ArchiveFiles
    /\ watching = TRUE
    /\ nextId = 3
    /\ \E tasks \in {<<>>} \cup {<<t1>> : t1 \in StoredTasks(1)}
                   \cup {<<t1, t2>> : t1 \in StoredTasks(1), t2 \in StoredTasks(2)} :
          file = Some([tasks |-> tasks, activity |-> <<>>])

NextArchive ==
    \/ \E w \in {"ok", "throws"}, o \in SafeWriteOutcomes : RestArchive(w, o)
    \/ Tick(TASKS_CACHE_TTL)

SpecArchive == InitArchive /\ [][NextArchive]_vars

-----------------------------------------------------------------------------
(* The fields of a task under updates whose fields a client supplies: a
   valid status, a status that is no column, the id of another task, a
   priority.  tasks.json holds one task, with an id handed out earlier. *)

ClientUpdates == {[status |-> "in_progress"], [status |-> "blocked"], [id |-> 2],
                  [priority |-> "high"]}

InitFields ==
    /\ InitCommon
    /\ file = Some([tasks |-> <<StoredTask(2, "inbox")>>, activity |-> <<>>])
    /\ watching = TRUE
    /\ nextId = 1

NextFields ==
    \/ WsConnection(1, AllOk)
    \/ WsConnectionReady(1)
    \/ \E a \in Assignees : RestCreateTask(a, "ok")
    \/ \E id \in TaskIds, u \in ClientUpdates : RestPatchTask(id, u, "ok")
    \/ \E id \in TaskIds, u \in ClientUpdates : WsUpdateTask(1, id, u, "ok")
    \/ \E id \in TaskIds : RestDeleteTask(id, "ok")
    \/ \E id \in TaskIds : RestAddComment(id, "ok")
    \/ \E id \in TaskIds : WsAddTaskLog(1, id, "ok")
    \/ FlushTimer

SpecFields == InitFields /\ [][NextFields]_vars

-----------------------------------------------------------------------------
(* Requests with a body: with and without the fields their handler requires,
   with no body, with the text null, with text that is not JSON *)

TaskBodies == {BadBody, NoBody, NullBody,
               ObjectBody([title |-> "Fix"]),
               ObjectBody([title |-> "Fix", assignee |-> "geordi"]),
               ObjectBody([title |-> "", assignee |-> "geordi"]),
               ObjectBody([assignee |-> "geordi"])}

PatchBodies == {BadBody, NoBody, ObjectBody([status |-> "done"])}

MessageBodies == {BadBody, NoBody, NullBody,
                  ObjectBody([to |-> "Geordi", subject |-> "Status"]),
                  ObjectBody([to |-> "Geordi", subject |-> "Status", from |-> "Seven"]),
                  ObjectBody([to |-> "Geordi"]),
                  ObjectBody([subject |-> "Status"]),
                  ObjectBody([to |-> "", subject |-> "Status"]),
                  ObjectBody([to |-> "Geordi", subject |-> ""])}

InitRequests ==
    /\ InitCore /\ InitArchiveFile /\ InitGateway /\ InitLoop
    /\ messagesFile \in {None, Some(getDefaultMessages)}
    /\ messagesCache = NoCache
    /\ file \in {None, Some(getDefaultTasks)}
    /\ watching = ~IsNull(file)
    /\ nextId = 1

NextRequests ==
    \/ \E b \in TaskBodies, o \in SafeWriteOutcomes : RestPostTasks(b, o)
    \/ \E id \in TaskIds, b \in PatchBodies, o \in SafeWriteOutcomes :
          RestPatchTaskBody(id, b, o)
    \/ \E b \in TaskBodies, cli \in {"ok", "fails"} : RestSpawnTask(b, cli)
    \/ \E b \in MessageBodies, w \in {"ok", "throws"} : RestPostMessage(b, w)
    \/ FlushTimer

SpecRequests == InitRequests /\ [][NextRequests]_vars

\* Replies: messages.json is absent, or holds a message without replies and
\* an acknowledged one with a reply; requests with and without a text, with
\* and without complete, to these messages and to an id of no message;
\* writes of messages.json that succeed or throw
StoredMessage(id, status, replies) ==
    IF replies = <<>>
    THEN [id |-> id, from |-> "seven", to |-> "geordi", subject |-> "Status",
          read |-> FALSE, status |-> status, taskId |-> NoAgent]
    ELSE [id |-> id, from |-> "seven", to |-> "geordi", subject |-> "Status",
          read |-> FALSE, status |-> status, taskId |-> NoAgent, replies |-> replies]

StoredMessages ==
    [getDefaultMessages EXCEPT
       !.messages = <<StoredMessage(1, "pending", <<>>),
                      StoredMessage(2, "acknowledged",
                                    <<[from |-> "geordi", text |-> "Seen"]>>)>>]

ReplyBodies == {BadBody, NoBody,
                ObjectBody([text |-> "Done", complete |-> TRUE]),
                ObjectBody([text |-> "Working", complete |-> FALSE, from |-> "geordi"]),
                ObjectBody([text |-> "Seen"]),
                ObjectBody([complete |-> TRUE]),
                ObjectBody([text |-> "", complete |-> TRUE])}

MessageIds == 1..3

InitReplies ==
    /\ InitCore /\ InitArchiveFile /\ InitGateway /\ InitLoop
    /\ messagesFile \in {None, Some(StoredMessages)}
    /\ messagesCache = NoCache
    /\ file = None
    /\ watching = FALSE
    /\ nextId = 3

NextReplies ==
    \/ RestPostMessage(ObjectBody([to |-> "Geordi", subject |-> "Status"]), "ok")
    \/ \E id \in MessageIds, b \in ReplyBodies, w \in {"ok", "throws"} :
          RestPostReply(id, b, w)
    \/ FlushTimer
    \/ Tick(MESSAGES_CACHE_TTL)

SpecMessages == InitReplies /\ [][NextReplies]_vars

\* Counting: messages.json holds up to MaxMessages messages, to a listed
\* agent or to another recipient, read, not read or without the field (as
\* another writer of the file, or a PATCH with read null, leaves it),
\* pending or not
CountedMessages ==
    [id : {1}, to : {"geordi", "seven", "worf"}, read : BOOLEAN,
     status : {"pending", "completed"}]
    \cup [id : {1}, to : {"geordi", "seven", "worf"}, status : {"pending", "completed"}]

CountedLists == UNION {[1..n -> CountedMessages] : n \in 0..MaxMessages}

InitCounts ==
    /\ InitCore /\ InitArchiveFile /\ InitGateway /\ InitLoop
    /\ messagesFile \in {None} \cup {Some([messages |-> list]) : list \in CountedLists}
    /\ messagesCache = NoCache
    /\ file = None
    /\ watching = FALSE
    /\ nextId = 1

NextCounts ==
    \/ RestGetMessageCounts
    \/ Tick(MESSAGES_CACHE_TTL)

SpecCounts == InitCounts /\ [][NextCounts]_vars

\* Reads and mutations of both documents, with writes that succeed;
\* messages.json holds two messages, tasks.json one task
InitReads ==
    /\ InitCore /\ InitArchiveFile /\ InitGateway /\ InitLoop
    /\ messagesFile = Some(StoredMessages)
    /\ messagesCache = NoCache
    /\ file = createTask(NoCache, None, 0, 1, NoAgent, "ok").file
    /\ watching = TRUE
    /\ nextId = 2

Mutations ==
    \/ \E id \in MessageIds : RestPostReply(id, ObjectBody([text |-> "Seen"]), "ok")
    \/ \E u \in StatusMoves : RestPatchTask(1, u, "ok")
    \/ RestAddComment(1, "ok")
    \/ FlushTimer
    \/ Tick(TASKS_CACHE_TTL)

NextReads ==
    \/ Mutations
    \/ RestGetTasks
    \/ \E locks \in 0..1 : RestGetTasksEnriched(locks)
    \/ \E agent \in {"", "Geordi"} : RestGetMessages(agent)
    \/ RestGetMessageCounts

SpecReads == InitReads /\ [][NextReads]_vars

\* Tasks made from messages: saves of tasks.json that may be refused and
\* writes of messages.json that may throw
InitLink ==
    /\ InitCore /\ InitArchiveFile /\ InitGateway /\ InitLoop
    /\ messagesFile \in {None, Some(StoredMessages)}
    /\ messagesCache = NoCache
    /\ file \in {None, Some(getDefaultTasks)}
    /\ watching = ~IsNull(file)
    /\ nextId = 3

NextLink ==
    \/ \E id \in MessageIds, o \in SafeWriteOutcomes, w \in {"ok", "throws"} :
          RestCreateTaskFromMessage(id, o, w)
    \/ \E id \in MessageIds, b \in {ObjectBody([text |-> "Seen"])} :
          RestPostReply(id, b, "ok")
    \/ FlushTimer
    \/ Tick(TASKS_CACHE_TTL)

SpecLink == InitLink /\ [][NextLink]_vars

\* The same with saves and writes that succeed
NextLinkSaved ==
    \/ \E id \in MessageIds : RestCreateTaskFromMessage(id, "ok", "ok")
    \/ \E id \in MessageIds, b \in {ObjectBody([text |-> "Seen"])} :
          RestPostReply(id, b, "ok")
    \/ FlushTimer
    \/ Tick(TASKS_CACHE_TTL)

SpecLinkSaved == InitLink /\ [][NextLinkSaved]_vars

-----------------------------------------------------------------------------
(* The waits for the gateway: the update loop and the connection handlers
   with a gateway that answers, refuses, answers with an error status, or
   answers and leaves the body unfinished.  The runtime runs a timer that is
   due and a handler whose wait has ended; nothing makes the gateway end a
   body. *)

LiveEnvs == {[AllOk EXCEPT !.sessions = g] :
               g \in {[kind |-> "ok", body |-> OneSession], [kind |-> "down"],
                      [kind |-> "status"]}}

NextLive ==
    \/ \E e \in LiveEnvs : UpdateLoopStart(e)
    \/ UpdateLoopResume
    \/ UpdateLoopThrows
    \/ UpdateLoopStall
    \/ \E failed \in BOOLEAN : UpdateLoopAfterBody(failed)
    \/ \E c \in Conns : WsConnection(c, AllOk)
    \/ \E c \in Conns : WsConnectionReady(c)
    \/ \E c \in Conns : SessionsStall(c)
    \/ \E c \in Conns : WsConnectionAfterBody(c)
    \/ FlushTimer

\* Weak fairness of the call of updateLoop, WF_vars(\E e : UpdateLoopStart(e)),
\* written with the condition under which the call is enabled: a call that
\* is due is made
UpdateLoopFair ==
    \/ []<>(loop.timers = 0)
    \/ []<><<\E e \in LiveEnvs : UpdateLoopStart(e)>>_vars

SpecLive ==
    /\ InitHub
    /\ [][NextLive]_vars
    /\ UpdateLoopFair
    /\ WF_vars(UpdateLoopResume)
    /\ \A c \in Conns : WF_vars(WsConnectionReady(c))
    /\ WF_vars(FlushTimer)

-----------------------------------------------------------------------------
(* Properties of the task store *)

StoreOps == {"createTask", "updateTask", "deleteTask", "addTaskComment", "addTaskLog"}

\* C3: every mutation an in-process caller got acknowledged is in tasks.json:
\* after a store operation that returned its entity, the file holds what the
\* operation makes of the document persisted before it (no other process
\* having written the file).
C3_NoLostUpdate ==
    (last.op \in StoreOps /\ extWrites = 0) => ~last.lost

\* C4: updateTask, deleteTask and addTaskComment on an id the document does
\* not hold return null, do not call saveTasks, and leave tasks.json, the
\* activity log and the document that loadTasks returns as they were.
C4_NotFoundChangesNothing ==
    (last.op \in {"updateTask", "deleteTask", "addTaskComment"} /\ ~last.found) =>
        /\ last.ret = "null"
        /\ last.saved = "none"
        /\ last.fileSame
        /\ last.viewSame
        /\ last.added = <<>>
        /\ ~last.bcast

\* C4 witness: a miss on a document that holds another task
C4_Witness ==
    /\ last.op \in {"updateTask", "deleteTask", "addTaskComment"}
    /\ ~last.found
    /\ last.ret = "null"
    /\ Len(View.tasks) > 0

\* C5: a store operation whose saveTasks returned false reports failure: it
\* returns no entity, the REST handler answers no 2xx and nothing is broadcast.
C5_RefusedWriteReported ==
    (last.op \in StoreOps /\ last.saved = "fail") =>
        /\ last.ret = "null"
        /\ last.code \notin {200, 201}
        /\ ~last.bcast

\* C6: after a store operation whose write was refused, loadTasks returns the
\* document as last persisted (no other process having written the file).
C6_RefusedMutationInvisible ==
    (last.op \in StoreOps /\ last.saved = "fail" /\ extWrites = 0) =>
        View = PersistedDoc(file)

C9_PrunedToMostRecent ==
    last.saved = "ok" =>
        /\ last.kept
        /\ Len(Val(file).activity) <= MAX_ACTIVITY_ENTRIES
        /\ \A i \in 1..Len(Val(file).tasks) :
              Len(Val(file).tasks[i].logs) <= MAX_LOGS_PER_TASK

\* C9 witness: a save that dropped several activity records and several logs
C9_Witness ==
    /\ last.saved = "ok"
    /\ last.kept
    /\ last.dropped[1] > 1
    /\ last.dropped[2] > 1
    /\ Len(Val(file).activity) = MAX_ACTIVITY_ENTRIES

-----------------------------------------------------------------------------
(* Properties of the broadcast hub *)

\* C1: when the flush timer fires, every registered client that is OPEN gets
\* exactly one frame, the text of the payload of the last broadcast call of
\* the window, and no other client gets a frame.
C1_OneFrameLatestPayload == lastFlush.latest

\* C1 witness: a flush that closes a window of several calls, with one client
\* open and another registered but closing
C1_Witness ==
    /\ lastFlush.n >= 2
    /\ lastFlush.open = 1
    /\ Cardinality(clients) = 2
    /\ lastFlush.latest

\* C2: the flush that closes a window in which a REST PATCH changed the
\* status of a task (and was saved) sends every open client exactly one
\* tasks_update frame that shows the new status, whatever else was broadcast
\* in the window.
C2_PatchReachesClients ==
    (lastFlush.patched /\ lastFlush.open > 0) => lastFlush.tasksFrame

-----------------------------------------------------------------------------
(* Properties of the cache layer *)

\* C7: a getCached call made within the lifetime of an entry whose fetch
\* function ran, with no invalidation since, returns the value the entry
\* holds and does not call the fetch function.
C7_NoRefetchWithinTtl ==
    \A i \in 1..Len(hist.gets) :
        hist.gets[i].within => (~hist.gets[i].computed /\ hist.gets[i].same)

\* C8: when the fetch function fails for a key that holds a successfully
\* fetched value, the call returns the previous value or the default of the
\* source (and the weather endpoint does not answer an error).
C8_FailureKeepsValue ==
    /\ \A i \in 1..Len(hist.gets) :
          (hist.gets[i].failed /\ hist.gets[i].hadGood) =>
              hist.gets[i].ret \in {"previous", "default"}
    /\ (/\ last.op = "getWeather"
        /\ hist.gets[1].failed
        /\ hist.gets[1].hadGood) => last.code = 200

-----------------------------------------------------------------------------
(* Properties of createTask and of the activity log *)

\* The number of records of a log with this action
CountAction(s, action) == Cardinality({k \in 1..Len(s) : s[k].action = action})

\* C11: createTask adds exactly one task to the document, with status
\* "assigned" when an assignee is given and "inbox" otherwise (no assignee,
\* or an empty one), and appends exactly one "created" activity record,
\* plus exactly one "assigned" record when an assignee is given, and no other.
C11_CreateTask ==
    last.op = "createTask" =>
        LET given == last.updates.assignee \notin {NoAgent, ""} IN
        /\ Len(last.tasksAdded) = 1
        /\ last.tasksAdded[1].id = last.taskId
        /\ last.tasksAdded[1].status = (IF given THEN "assigned" ELSE "inbox")
        /\ CountAction(last.added, "created") = 1
        /\ CountAction(last.added, "assigned") = (IF given THEN 1 ELSE 0)
        /\ Len(last.added) = (IF given THEN 2 ELSE 1)
        /\ \A k \in 1..Len(last.added) : last.added[k].taskId = last.taskId

C11_Witness ==
    /\ last.op = "createTask"
    /\ last.updates.assignee = "geordi"
    /\ last.tasksAdded[1].status = "assigned"
    /\ last.tasksAdded[1].assignee = "geordi"
    /\ Len(last.added) = 2


\* The action of the one record an operation of the store appends
ActionOf(op) ==
    CASE op = "createTask" -> "created"
      [] op = "updateTask" -> "moved"
      [] op = "deleteTask" -> "deleted"
      [] op = "addTaskComment" -> "added"
      [] op = "addTaskLog" -> "logged"

\* The operations the activity log records: a store operation that returned
\* its entity, for updateTask one that changed the status of the task
Recorded ==
    /\ last.op \in StoreOps
    /\ last.ret # "null"
    /\ last.op = "updateTask" =>
          /\ "status" \in DOMAIN last.updates
          /\ last.updates.status \in Columns
          /\ last.updates.status # last.old

\* C12 as stated: every successful status transition, creation, deletion,
\* comment and log operation appends exactly one activity record at the end
\* of the log, and what is stored is the log with records dropped from the
\* front only.
C12_OneRecordPerOperation ==
    Recorded =>
        /\ Len(last.added) = 1
        /\ last.added[1].action = ActionOf(last.op)
        /\ last.kept

\* C12, amended: the same, but a creation with an assignee appends two
\* records, "created" and then "assigned".
C12_RecordsPerOperation ==
    Recorded =>
        /\ last.added[1].action = ActionOf(last.op)
        /\ IF last.op = "createTask" /\ last.updates.assignee \notin {NoAgent, ""}
           THEN /\ Len(last.added) = 2
                /\ last.added[2].action = "assigned"
           ELSE Len(last.added) = 1
        /\ last.kept

C12_Witness ==
    /\ last.op = "addTaskLog"
    /\ last.ret # "null"
    /\ last.saved = "ok"
    /\ Len(last.added) = 1
    /\ Len(PersistedDoc(file).activity) >= 3


-----------------------------------------------------------------------------
(* Properties of the connections *)

C14_SilentDroppedAtNextTick ==
    last.op = "pingTick" =>
        /\ \A c \in last.silent : c \in last.terminated /\ c \notin clients
        /\ last.terminated \subseteq last.silent


\* C15: a client gets its frames in the order the server issued them, the
\* call of broadcast() counting as the issue of a broadcast frame: no flush
\* sends a client the queued payload after a direct frame that a handler sent
\* to that client later than broadcast() was called with the payload.
C15_DeliveredInIssueOrder == lastFlush.overtaken = {}


-----------------------------------------------------------------------------
(* Properties of the snapshot *)

\* The steps that gather a snapshot and broadcast it
Gathered == last.op \in {"updateLoop", "quarkWatcher"}

\* C17: whatever its collaborators do, gatherBridgeData resolves with a full
\* snapshot (the step broadcasts it), in which the slice of every source
\* that failed is the default of that source (sessions [], quark OFFLINE,
\* the default git and system records, a stopped work loop, no task in
\* review) and the slice of every source that answered is what it answered.
C17_FailedSliceFallsBack ==
    Gathered =>
        LET env == last.updates
            d == Val(broadcastQueue).data
            sessionsOk == env.sessions.kind = "ok" /\ env.sessions.body.json = "array"
        IN  /\ last.bcast
            /\ d.sessions = (IF sessionsOk THEN env.sessions.body ELSE JArray(<<>>))
            /\ d.crew.totalSessions = (IF sessionsOk THEN Len(env.sessions.body.items) ELSE 0)
            /\ d.quark.status = "OFFLINE" <=> env.quark.kind # "ok"
            /\ env.quark.kind # "ok" => d.quark = QuarkOffline
            /\ d.workLoop = (IF env.workLoop.kind = "ok"
                             THEN [status |-> "running", activeWorkers |-> {"geordi"}]
                             ELSE WorkLoopStopped)
            /\ \A k \in 1..Len(hist.gets) :
                   hist.gets[k].computed =>
                       hist.gets[k].ret = (IF hist.gets[k].failed THEN "default" ELSE "fresh")
            /\ d.review = (IF IsNull(file) THEN 0 ELSE 1)


\* The routing rules in their order: the owner and the substrings looked for
Rules ==
    <<[owner |-> "spock", subs |-> {"spock", "research"}],
      [owner |-> "geordi", subs |-> {"geordi", "engineer", "dashboard", "build"}],
      [owner |-> "uhura", subs |-> {"uhura", "email", "comms", "triage"}],
      [owner |-> "quark", subs |-> {"quark", "trad", "crypto", "polymarket"}],
      [owner |-> "data", subs |-> {"data", "qc", "review"}],
      [owner |-> "belanna", subs |-> {"belanna", "torres"}],
      [owner |-> "harry", subs |-> {"harry", "kim", "ops"}],
      [owner |-> "icheb", subs |-> {"icheb", "borg"}],
      [owner |-> "tom", subs |-> {"tom", "paris", "risk"}],
      [owner |-> "neelix", subs |-> {"neelix", "resource"}],
      [owner |-> "tuvok", subs |-> {"tuvok", "security"}],
      [owner |-> "doctor", subs |-> {"doctor", "emh"}]>>

\* The owner of the first rule one of whose substrings occurs in the
\* lower-cased label of the session; seven when there is none
FirstMatch(session) ==
    LET text == IF "label" \in DOMAIN session THEN toLowerCase(session.label) ELSE ""
        hits == {k \in 1..Len(Rules) : Rules[k].subs \cap Substrings(text) # {}}
    IN  IF hits = {} THEN "seven"
        ELSE Rules[CHOOSE k \in hits : \A j \in hits : k <= j].owner

\* C18: analyzeCrewActivity puts every session in the task list of exactly
\* one crew member, once: the owner of the first matching rule, seven when no
\* rule matches; every member's active count is the length of its task list,
\* and the counts sum to totalSessions, the number of sessions.
C18_FirstMatchOwner ==
    (Gathered /\ ~IsNull(broadcastQueue)) =>
        LET items == last.updates.sessions.body.items
            a == Val(broadcastQueue).data.crew
            Entries(m, k) == {j \in 1..Len(a.crew[m].tasks) : a.crew[m].tasks[j].session = k}
        IN  /\ \A k \in 1..Len(items) : \A m \in Crew :
                   Cardinality(Entries(m, k)) = (IF m = FirstMatch(items[k]) THEN 1 ELSE 0)
            /\ \A m \in Crew : a.crew[m].active = Len(a.crew[m].tasks)
            /\ Cardinality({<<m, j>> \in Crew \X (1..MaxSessions + 1) :
                                j <= a.crew[m].active}) = a.totalSessions
            /\ a.totalSessions = Len(items)

C18_Witness ==
    /\ Gathered
    /\ ~IsNull(broadcastQueue)
    /\ Val(broadcastQueue).data.crew.totalSessions = 2
    /\ Val(broadcastQueue).data.crew.crew["spock"].active = 1
    /\ Val(broadcastQueue).data.crew.crew["seven"].active = 1
    /\ last.updates.sessions.body.items[1] = [label |-> "research data", status |-> "running"]
    /\ last.updates.sessions.body.items[2] = [status |-> "idle"]


-----------------------------------------------------------------------------
(* Properties of the portfolio figures *)

\* The length of the longest suffix of the history whose trades all have the
\* result of the most recent trade
SuffixRun(h) ==
    LET n == Len(h)
        Same(c) == \A i \in (n - c + 1)..n : ResultOf(h[i]) = ResultOf(h[n])
    IN  CHOOSE c \in 1..n : Same(c) /\ (c = n \/ ~Same(c + 1))

\* The starting balance plus the profits of the first k trades
BalanceAfter(start, h, k) ==
    LET RECURSIVE Sum(_)
        Sum(i) == IF i = 0 THEN 0 ELSE Sum(i - 1) + ProfitOf(h[i])
    IN  start + Sum(k)

\* C19: the streak of the snapshot counts the longest suffix of the history
\* whose trades all have the result of the most recent trade, and its type is
\* that result; for an empty history it is {count: 0, type: null}.
C19_StreakIsSuffixRun ==
    (last.op = "quarkWatcher" /\ ~IsNull(broadcastQueue)) =>
        LET h == last.updates.quark.data.history
            streak == Val(broadcastQueue).data.quark.streak
        IN  IF Len(h) = 0 THEN streak = [count |-> 0, type |-> "null"]
            ELSE streak = [count |-> SuffixRun(h), type |-> ResultOf(h[Len(h)])]

\* C20 as stated: the sparkline of a history of n trades has n + 1 points,
\* point 0 is the starting balance and point k the starting balance plus the
\* profits of the first k trades, a trade without a profit counting as 0.
C20_SparklineExactSums ==
    (last.op = "quarkWatcher" /\ ~IsNull(broadcastQueue)) =>
        LET data == last.updates.quark.data
            sparkline == Val(broadcastQueue).data.quark.sparkline
        IN  /\ Len(sparkline) = Len(data.history) + 1
            /\ \A k \in 0..Len(data.history) :
                   sparkline[k + 1] = BalanceAfter(data.starting_balance, data.history, k)

\* C20, amended: the same, but every point after point 0 is the sum rounded
\* to hundredths.
C20_SparklineRoundedSums ==
    (last.op = "quarkWatcher" /\ ~IsNull(broadcastQueue)) =>
        LET data == last.updates.quark.data
            sparkline == Val(broadcastQueue).data.quark.sparkline
        IN  /\ Len(sparkline) = Len(data.history) + 1
            /\ sparkline[1] = data.starting_balance
            /\ \A k \in 1..Len(data.history) :
                   sparkline[k + 1] =
                       toFixed2(BalanceAfter(data.starting_balance, data.history, k))

C20_Witness ==
    /\ last.op = "quarkWatcher"
    /\ ~IsNull(broadcastQueue)
    /\ last.updates.quark.data.starting_balance = 100000
    /\ last.updates.quark.data.history = <<Trade("win", 10000), Trade("loss", -5000), [result |-> "win"]>>
    /\ Val(broadcastQueue).data.quark.sparkline = <<100000, 110000, 105000, 105000>>

-----------------------------------------------------------------------------
(* Properties of the archive *)

NoTwice(items) == \A i, j \in 1..Len(items) : items[i].id = items[j].id => i = j

\* C21: an archive call, the archive file of the day being usable, moves
\* exactly the tasks of tasks.json that are done and were last updated
\* before the cutoff to the end of the archive file and answers their
\* number; a call that finds no such task answers 0 and leaves both files
\* as they are; and calls repeated on the same day put no task into the
\* archive file twice.
C21_ArchiveMovesOnce ==
    /\ (last.op = "archive" /\ last.arch.writable) =>
          /\ last.arch.moved
          /\ last.arch.archived = last.arch.eligible
    /\ (last.op = "archive" /\ last.arch.eligible = 0) =>
          /\ last.arch.archived = 0
          /\ last.arch.same
    /\ (~IsNull(archive) /\ IsArray(Val(archive))) => NoTwice(Val(archive).items)

-----------------------------------------------------------------------------
(* Properties of the fields of a task *)

\* C22: every task of tasks.json, and of the document loadTasks returns, has
\* a status that is one of the six columns.
C22_StatusIsColumn ==
    /\ \A i \in 1..Len(PersistedDoc(file).tasks) :
           PersistedDoc(file).tasks[i].status \in Columns
    /\ \A i \in 1..Len(View.tasks) : View.tasks[i].status \in Columns

\* C23: the ids of the tasks of tasks.json are pairwise distinct (generateId
\* hands out every id once).
C23_IdsDistinct == NoTwice(PersistedDoc(file).tasks)

-----------------------------------------------------------------------------
(* Properties of requests that are not valid *)

\* The requests answered without any work that C24 is about: those whose
\* body is not JSON, a POST /api/tasks (no title), a POST /api/messages (no
\* to, or no subject)
Claimed(request) ==
    \/ request.body.text = "invalid"
    \/ request.route \in {"POST /api/tasks", "POST /api/messages"}

\* C24: a POST /api/tasks without a title, a POST /api/messages without to or
\* subject, and a mutating request whose body is not JSON are answered 400
\* and change neither tasks.json nor messages.json, no cache and not the
\* broadcast queue.
C24_InvalidAnswered400 ==
    [][(last'.op = "answered" /\ Claimed(last'.updates)) =>
          /\ last'.code = 400
          /\ UNCHANGED <<file, tasksCache, messagesFile, messagesCache, cache,
                         broadcastQueue, broadcastTimeout, window>>]_vars

-----------------------------------------------------------------------------
(* Properties of the add_task_log frame *)

\* C25: the flush that closes a window whose last broadcast call was the
\* task_log_update of a successful add_task_log frame sends every open
\* client a task_log_update frame for the new log entry and a tasks_update
\* frame with the document that holds the entry.
C25_LogAndTasksFrames ==
    (lastFlush.logged /\ lastFlush.open > 0) => lastFlush.logFrames

-----------------------------------------------------------------------------
(* Properties of the waits *)

\* C26: every wait for gatherBridgeData() ends: an update loop that has
\* called it gets to schedule its next call, and a connection handler that
\* has called it gets to send the init frames.
C26_GatherResolves ==
    /\ (loop.pc \in {"gathering", "body"}) ~> (loop.pc = "timer")
    /\ \A c \in Conns :
          (conn[c].phase \in {"gathering", "body"}) ~> (conn[c].phase = "ready")

-----------------------------------------------------------------------------
(* Properties of the task store next to another writer *)

\* C27: a store operation works on the tasks document that is on disk: after
\* an operation whose save succeeded, tasks.json holds what the operation
\* makes of the document that was persisted just before it, whoever wrote
\* that document.
C27_MutationFromDisk ==
    (last.op \in StoreOps /\ last.saved = "ok") => ~last.lost

-----------------------------------------------------------------------------
(* Properties of invalidateCache *)

\* C28: the first getCached call for a key after invalidateCache had the key
\* in its list calls the fetch function and returns what it yields, whatever
\* the age of the entry; and invalidateCache leaves the entries of the keys
\* not in its list, and the set of entries, as they are.
C28_InvalidateForcesFetch ==
    /\ [](\A i \in 1..Len(hist.gets) :
            hist.gets[i].invalidated =>
                (hist.gets[i].computed /\ hist.gets[i].ret # "previous"))
    /\ [][last'.op = "invalidateCache" =>
            /\ DOMAIN cache' = DOMAIN cache
            /\ \A k \in DOMAIN cache : k \notin last'.updates => cache'[k] = cache[k]]_vars

\* A getCached call for an invalidated key whose entry held a fetched value
\* younger than its lifetime, next to an entry that was not invalidated and
\* still holds its value
C28_Witness ==
    /\ \E i \in 1..Len(hist.gets) :
          /\ hist.gets[i].invalidated
          /\ hist.gets[i].young
          /\ hist.gets[i].hadGood = FALSE
          /\ hist.gets[i].computed
    /\ \E i \in 1..Len(hist.gets) :
          /\ ~hist.gets[i].invalidated
          /\ hist.gets[i].within
          /\ ~hist.gets[i].computed

-----------------------------------------------------------------------------
(* Properties of the gateway uptime *)

\* C29: GET /api/system answers while the gateway status command may still
\* run: getGatewayUptime returns the value the entry holds and leaves the
\* entry as it is; when that value is non-null and fresh no command is
\* started, and otherwise a command is running when it returns.  A command
\* that ends with an error or with output that cannot be parsed leaves the
\* entry, value and timestamp, as it is.
C29_UptimeWithoutWaiting ==
    /\ last.op = "getSystem" =>
          /\ last.code = 200
          /\ last.gw.known
          /\ last.gw.kept
          /\ last.gw.fresh => ~last.gw.started
          /\ ~last.gw.fresh => gatewayStatusPromise
    /\ (last.op = "gatewayStatus" /\ last.gw.failed) => last.gw.kept

\* A command that failed while the entry held an uptime older than its
\* lifetime: the request that started it was answered with that uptime
C29_Witness ==
    /\ last.op = "gatewayStatus"
    /\ last.gw.failed
    /\ ~IsNull(cache["gatewayStatus"].data)
    /\ now - cache["gatewayStatus"].lastUpdate >= cache["gatewayStatus"].ttl

-----------------------------------------------------------------------------
(* Properties of the replies *)

\* C30: a reply (a request with a text) to a message the document holds is
\* answered 201, after which the message has exactly one more entry in its
\* replies, the earlier ones in place, and the status "completed" when
\* complete is true and "acknowledged" otherwise; every other message is as
\* it was, and a successful write puts that document in messages.json.  A
\* reply to an id of no message is answered 404, writes and broadcasts
\* nothing, and leaves the document and messages.json as they were.
C30_ReplyAppendsAndSetsStatus ==
    last.op = "reply" =>
        IF last.msg.found
        THEN /\ last.code = 201
             /\ last.msg.appended = 1
             /\ last.msg.status =
                   (IF "complete" \in DOMAIN last.updates /\ last.updates.complete
                    THEN "completed" ELSE "acknowledged")
             /\ last.msg.others
             /\ last.msg.stored
        ELSE /\ last.code = 404
             /\ last.saved = "none"
             /\ ~last.bcast
             /\ last.msg.same

\* A completing reply to the second of two messages, which already had a reply
C30_Witness ==
    /\ last.op = "reply"
    /\ last.msg.found
    /\ last.taskId = 2
    /\ "complete" \in DOMAIN last.updates /\ last.updates.complete
    /\ last.saved = "ok"
    /\ Len(MessagesView.messages) = 2
    /\ Len(RepliesOf(MessagesView.messages[2])) = 2
    /\ MessagesView.messages[2].status = "completed"
    /\ MessagesView.messages[1].status = "pending"

-----------------------------------------------------------------------------
(* Properties of the tasks made from messages *)

\* C31: a create-task request for a message the document holds is answered
\* 201, after which tasks.json holds exactly one task it did not hold
\* before, with the subject of the message as title, its recipient as
\* assignee and the status "assigned", and messages.json holds the message
\* with the id of that task as taskId; a request for an id of no message is
\* answered 404 and creates no task.
C31_TaskFromMessage ==
    last.op = "createTaskFromMessage" =>
        IF last.link.found
        THEN /\ last.code = 201
             /\ last.link.tasksNew = 1
             /\ last.link.built
             /\ last.link.linked
        ELSE /\ last.code = 404
             /\ last.link.tasksNew = 0
             /\ last.saved = "none"
             /\ last.link.messagesSame

-----------------------------------------------------------------------------
(* Properties of the message counts *)

\* The messages of the document with a number of a set, and the counts of them
Among(list, to) ==
    {k \in 1..Len(list) : to = "" \/ ("to" \in DOMAIN list[k] /\ list[k].to = to)}

CountsAre(counts, list, to, unread(_)) ==
    /\ counts.total = Cardinality(Among(list, to))
    /\ counts.unread = Cardinality({k \in Among(list, to) : unread(list[k])})
    /\ counts.pending = Cardinality({k \in Among(list, to) : list[k].status = "pending"})

ReadFalse(m) == "read" \in DOMAIN m /\ m.read = FALSE
ReadNotTrue(m) == ~("read" \in DOMAIN m /\ m.read = TRUE)

\* C32 as stated: the counts of GET /api/messages/counts are the number of
\* all messages, of those with read false and of those with status pending,
\* and for each listed agent the same counts over the messages to that agent.
C32_CountsReadFalse ==
    last.op = "getMessageCounts" =>
        /\ CountsAre(last.updates, MessagesView.messages, "", ReadFalse)
        /\ DOMAIN last.updates.byAgent = agents
        /\ \A agent \in agents :
              CountsAre(last.updates.byAgent[agent], MessagesView.messages, agent, ReadFalse)

\* C32: the same with unread as the number of messages whose read is not
\* true (false, or no value).
C32_CountsReadNotTrue ==
    last.op = "getMessageCounts" =>
        /\ CountsAre(last.updates, MessagesView.messages, "", ReadNotTrue)
        /\ DOMAIN last.updates.byAgent = agents
        /\ \A agent \in agents :
              CountsAre(last.updates.byAgent[agent], MessagesView.messages, agent,
                        ReadNotTrue)

\* Two messages, one to a listed agent without the read field and one to a
\* recipient that is not listed
C32_Witness ==
    /\ last.op = "getMessageCounts"
    /\ last.updates.total = 2
    /\ last.updates.unread = 2
    /\ last.updates.byAgent["geordi"].total = 1
    /\ last.updates.byAgent["geordi"].unread = 1
    /\ last.updates.byAgent["seven"].total = 0
    /\ \E k \in 1..2 : "read" \notin DOMAIN MessagesView.messages[k]

-----------------------------------------------------------------------------
(* Properties of the completion announcements *)

\* The qc_approved records among the added activities that name the task
Approvals(added, taskId) ==
    {k \in 1..Len(added) :
        /\ added[k].action = "qc_approved"
        /\ added[k].taskId = taskId}

\* C33: when the tasks file watcher sees a task done that was not done in
\* the state it saw before, moved to done by 'data', every open client gets
\* exactly one task_completed frame for that task, and exactly one
\* qc_approved activity is appended for it.
C33_CompletionAnnounced ==
    /\ last.op = "tasksWatcher" =>
           \A taskId \in last.updates : Cardinality(Approvals(last.added, taskId)) = 1
    /\ lastFlush.completed # {} => lastFlush.completedFrames

\* The part of C33 about the activity record
C33_ApprovalRecorded ==
    last.op = "tasksWatcher" =>
        \A taskId \in last.updates : Cardinality(Approvals(last.added, taskId)) = 1

\* A window in which a completion was announced closes with a client open
C33_Flushed ==
    /\ lastFlush.completed # {}
    /\ lastFlush.open > 0

-----------------------------------------------------------------------------
(* Properties of the update loop *)

\* C34: the update loop never stops by itself: a cycle that ends, with a
\* snapshot or with an error, leaves the next call scheduled, at most one
\* cycle is in flight, and a next call is scheduled again and again.
C34_LoopNeverStops ==
    /\ [](loop.flights <= 1)
    /\ [](last.op \in {"updateLoop", "updateLoopError"} =>
             loop.timers = 1 /\ loop.flights = 0)
    /\ []<>(loop.timers > 0)

\* The parts of C34 about the cycles that end
C34_EndedCycleSchedules ==
    /\ loop.flights <= 1
    /\ last.op \in {"updateLoop", "updateLoopError"} =>
           loop.timers = 1 /\ loop.flights = 0

\* A cycle ended in the catch block
C34_Caught ==
    /\ last.op = "updateLoopError"
    /\ loop.timers = 1

-----------------------------------------------------------------------------
(* Properties of the read-only requests *)

\* C35: the read-only requests change nothing that is persisted: after a
\* later mutation that was saved, tasks.json and messages.json hold, fields
\* and order, what the mutation makes of the document persisted before it,
\* as they would had no read happened.
C35_ReadsLeaveNoTrace ==
    (last.op \in {"reply", "updateTask", "addTaskComment"} /\ last.saved = "ok") =>
        ~last.lost

\* A saved mutation lands on what was persisted before it
C35_Mutated ==
    /\ last.op \in {"reply", "updateTask"}
    /\ last.saved = "ok"
    /\ ~last.lost

-----------------------------------------------------------------------------
(* Properties of the client set *)

\* C36: a connection of the client set leaves it once it closes, at whatever
\* moment: the client set never keeps a closed connection for ever.
C36_ClosedLeavesClients ==
    \A c \in Conns : (readyState[c] = "CLOSED" /\ c \in clients) ~> (c \notin clients)

\* The part of C36 about the connections whose handler has attached its
\* listeners: their close takes them out of the client set
C36_ClosedAfterReady ==
    [][\A c \in Conns :
          (conn[c].phase = "ready" /\ readyState[c] # "CLOSED" /\ readyState'[c] = "CLOSED")
              => c \notin clients']_vars

-----------------------------------------------------------------------------
(* Properties of the first frame *)

\* C37: the first frame a client receives is its init frame: no flush of
\* the broadcast queue delivers a frame to a client whose connection handler
\* has not yet sent it the init, tasks and messages frames.
C37_InitComesFirst == lastFlush.early = {}

\* A flush delivers its frame to a client that has its init frame
C37_FlushAfterInit ==
    /\ lastFlush.open > 0
    /\ lastFlush.latest
    /\ lastFlush.early = {}

-----------------------------------------------------------------------------
(* Properties of the gateway status command *)

\* C39: at most one gateway status command is in flight: a call made while
\* one is pending starts none and leaves it pending, a call that finds the
\* entry stale and no command pending starts one, and when the command has
\* ended, with an answer or with a failure, none is pending, so that the
\* next call on a stale entry starts one.
C39_SingleRefresh ==
    /\ [][(last'.op = "getSystem" /\ gatewayStatusPromise) =>
             (~last'.gw.started /\ gatewayStatusPromise')]_vars
    /\ [][(last'.op = "getSystem" /\ ~gatewayStatusPromise /\ ~last'.gw.fresh) =>
             (last'.gw.started /\ gatewayStatusPromise')]_vars
    /\ [](last.op = "gatewayStatus" => ~gatewayStatusPromise)

\* A call on a stale entry while the command is running
C39_Witness ==
    /\ last.op = "getSystem"
    /\ ~last.gw.fresh
    /\ ~last.gw.started
    /\ gatewayStatusPromise

-----------------------------------------------------------------------------
(* Properties of the flush timer *)

\* C38: while a payload is queued the flush timer is pending; the callback
\* of the timer leaves the queue empty and no timer pending; and every
\* queued payload is flushed, so none stays queued for ever.
C38_QueuedMeansTimer ==
    /\ [](~IsNull(broadcastQueue) => broadcastTimeout)
    /\ [][(broadcastTimeout /\ ~broadcastTimeout') => IsNull(broadcastQueue')]_vars
    /\ (~IsNull(broadcastQueue)) ~> (IsNull(broadcastQueue) /\ ~broadcastTimeout)

\* A flush has sent the queued payload to the clients and emptied the queue
C38_Witness ==
    /\ lastFlush.open > 0
    /\ lastFlush.latest
    /\ IsNull(broadcastQueue)
    /\ ~broadcastTimeout

-----------------------------------------------------------------------------
(* Properties of the archive file *)

\* The tasks of the archive file of the day, when it holds an array
Archived ==
    IF IsNull(archive) \/ ~IsArray(Val(archive)) THEN <<>> ELSE Val(archive).items

\* C40: after any sequence of archive calls, with archive writes that fail
\* and document saves that are refused among them, no task is in the archive
\* file twice and no task is both in the archive file and in tasks.json.
C40_ArchivedAtMostOnce ==
    /\ \A j, k \in 1..Len(Archived) : Archived[j].id = Archived[k].id => j = k
    /\ \A j \in 1..Len(Archived), k \in 1..Len(PersistedDoc(file).tasks) :
          Archived[j].id # PersistedDoc(file).tasks[k].id

\* A call archived a task and its save was accepted
C40_Moved ==
    /\ last.op = "archive"
    /\ last.arch.archived > 0
    /\ last.saved = "ok"
    /\ C40_ArchivedAtMostOnce

====
